---- MODULE Spec2Model ----
(***************************************************************************)
(* A model of cofide-sdk-go's xDS endpoint discovery client                *)
(* (internal/xds: XDSClient.GetEndpoints, watchEndpointsRetried,           *)
(* watchEndpoints, claToEndpoints) and of the exponential backoff it uses  *)
(* (internal/backoff: Backoff.Duration, Backoff.Reset).                    *)
(*                                                                         *)
(* Spec         one XDSClient, one polling caller, the watch task of a     *)
(*              service and the discovery server it talks to.              *)
(* SpecDedup    the same client with several concurrent GetEndpoints       *)
(*              callers.                                                   *)
(* FairSpec     Spec with the goroutine scheduler's fairness.              *)
(* SpecBackoff  one Backoff object under any sequence of Duration and      *)
(*              Reset calls.                                               *)
(***************************************************************************)
EXTENDS Integers, Sequences, FiniteSets, TLC

(***************************************************************************)
(* time.Duration is an int64 count of nanoseconds.  A duration is modelled *)
(* by the set of the positions of the one-bits of its 64-bit two's         *)
(* complement word, so that shifts drop bits and wrap exactly as Go's do.  *)
(***************************************************************************)
Width == 64

Word == 0 .. (Width - 1)

\* The bits of a small natural number.
RECURSIVE BitsFrom(_, _)
BitsFrom(v, pos) ==
    IF v = 0 THEN {}
    ELSE (IF v % 2 = 1 THEN {pos} ELSE {}) \cup BitsFrom(v \div 2, pos + 1)

Bits(v) == BitsFrom(v, 0)

\* Go's x << n on an int64: bits shifted past bit 63 are lost.
Shl64(d, n) == {b + n : b \in d} \cap Word

\* Sum of two words, modulo 2^64 (carry propagation).
RECURSIVE Add64(_, _)
Add64(a, b) ==
    IF b = {} THEN a
    ELSE Add64((a \cup b) \ (a \cap b), Shl64(a \cap b, 1))

\* k * d for a small natural k, modulo 2^64.
RECURSIVE Times(_, _)
Times(k, d) ==
    IF k = 0 THEN {}
    ELSE Add64(IF k % 2 = 1 THEN d ELSE {}, Shl64(Times(k \div 2, d), 1))

MaxBit(d) == CHOOSE b \in d : \A c \in d : c <= b

\* a < b for two non-negative magnitudes (sets of bit positions).
MagLess(a, b) ==
    LET diff == (a \cup b) \ (a \cap b)
    IN  diff # {} /\ MaxBit(diff) \in b

\* d < 0 on an int64.
Negative(d) == (Width - 1) \in d

\* a > b on two int64 values.
Greater(a, b) ==
    IF Negative(a) # Negative(b) THEN Negative(b) ELSE MagLess(b, a)

Nanosecond == Bits(1)

Millisecond == Times(1000, Times(1000, Nanosecond))

Second == Times(1000, Millisecond)

DefaultInitialDelay == Times(200, Millisecond)

DefaultMaxDelay == Times(10, Second)

(***************************************************************************)
(* Backoff                                                                 *)
(***************************************************************************)
NewBackoff(initial, max) == [InitialDelay |-> initial, MaxDelay |-> max, n |-> 0]

\* The value Duration returns: InitialDelay << n, replaced by MaxDelay when
\* it is negative or above MaxDelay.
Delay(b) ==
    LET d == Shl64(b.InitialDelay, b.n)
    IN  IF Negative(d) \/ Greater(d, b.MaxDelay) THEN b.MaxDelay ELSE d

\* The Backoff after a Duration call.
Advance(b) == [b EXCEPT !.n = b.n + 1]

\* A Reset that leaves the counter alone.
ResetKeepsCount(b) == b

\* The Backoff after a Reset call.
Reset(b) == [b EXCEPT !.n = 0]

(***************************************************************************)
(* xDS messages                                                            *)
(***************************************************************************)
Services == {"svc"}

NodeID == "test-client"

\* The node identities a client may be configured with (XDSClientConfig.NodeID).
NodeIDs == {NodeID, "node-2"}

\* The services of a client that is asked for two of them.
TwoServices == {"svc", "web"}

\* resource.EndpointType
EndpointType == "type.googleapis.com/envoy.config.endpoint.v3.ClusterLoadAssignment"

\* An LbEndpoint of a ClusterLoadAssignment: its socket address and its
\* load balancing weight are optional (a sequence of length 0 or 1).
LbA == [addr |-> <<[Address |-> "1.2.3.4", PortValue |-> 4321]>>, weight |-> <<42>>]

LbB == [addr |-> <<[Address |-> "1.2.3.5", PortValue |-> 4322]>>, weight |-> <<43>>]

LbBare == [addr |-> <<>>, weight |-> <<>>]

\* A resource of a response: an Any that unmarshals to a ClusterLoadAssignment
\* (a sequence of localities, each a sequence of LbEndpoints) or does not.
Cla(localities) == [decodes |-> TRUE, Endpoints |-> localities]

Malformed == [decodes |-> FALSE, Endpoints |-> <<>>]

ClaNone == Cla(<<>>)

ClaEmptyGroup == Cla(<< <<>> >>)

ClaOne == Cla(<< <<LbA>> >>)

ClaMany == Cla(<< <<LbA>>, <<>>, <<LbB, LbBare>> >>)

\* Three payloads: only the first is looked at.
ManyPayloads == <<ClaMany, Malformed, ClaOne>>

ResourceLists ==
    { <<>>, <<Malformed>>, <<ClaNone>>, <<ClaEmptyGroup>>, <<ClaOne>>,
      ManyPayloads, <<Malformed, ClaOne>> }

Stamps == { <<"v1", "n1">>, <<"v2", "n2">> }

Response(stamp, resources) ==
    [VersionInfo |-> stamp[1], Nonce |-> stamp[2], Resources |-> resources]

Responses == { Response(st, rs) : st \in Stamps, rs \in ResourceLists }

\* The responses of the environment with several callers.
FewResponses == { Response(<<"v1", "n1">>, rs) : rs \in { <<>>, <<ClaOne>> } }

NoResponse == Response(<<"", "">>, <<>>)

\* What the next stream.Recv returns: nothing yet, a response, io.EOF or
\* another error.
Incoming(kind, resp) == [kind |-> kind, resp |-> resp]

Nothing == Incoming("none", NoResponse)

(***************************************************************************)
(* claToEndpoints                                                          *)
(***************************************************************************)
GetAddress(addr) == IF addr = <<>> THEN "" ELSE addr[1].Address

GetPortValue(addr) == IF addr = <<>> THEN 0 ELSE addr[1].PortValue

GetValue(w) == IF w = <<>> THEN 0 ELSE w[1]

\* An Endpoint built without its weight.
ToEndpointNoWeight(lb) ==
    [Host |-> GetAddress(lb.addr), Port |-> GetPortValue(lb.addr), Weight |-> 0]

ToEndpoint(lb) ==
    [Host |-> GetAddress(lb.addr), Port |-> GetPortValue(lb.addr),
     Weight |-> GetValue(lb.weight)]

RECURSIVE LocalityEndpoints(_)
LocalityEndpoints(lbs) ==
    IF lbs = <<>> THEN <<>>
    ELSE <<ToEndpoint(Head(lbs))>> \o LocalityEndpoints(Tail(lbs))

RECURSIVE ClaToEndpoints(_)
ClaToEndpoints(localities) ==
    IF localities = <<>> THEN <<>>
    ELSE LocalityEndpoints(Head(localities)) \o ClaToEndpoints(Tail(localities))

(***************************************************************************)
(* SPIFFE IDs (package id).  A string is a sequence of characters, so that *)
(* trimming and splitting are computed.                                    *)
(***************************************************************************)
Chars == {"/", "a", "b"}

\* Bounds of the inputs.
MaxPathLen == 8

MaxFuncs == 2

SeqsUpTo(S, n) == UNION { [1 .. k -> S] : k \in 0 .. n }

\* What follows the trust domain in an ID string: nothing, or a slash and
\* the rest.
Paths == { p \in SeqsUpTo(Chars, MaxPathLen) : p = <<>> \/ p[1] = "/" }

\* An ID string: its scheme, its trust domain and the rest.
IDString(scheme, td, path) == [scheme |-> scheme, td |-> td, path |-> path]

IDStrings ==
    { IDString(h[1], h[2], p) :
          h \in { <<"spiffe", "example.com">>, <<"spiffe", "">>, <<"http", "example.com">> },
          p \in Paths }

\* An error value: a message and the strings formatted into it.  NilError
\* is nil.
Errorf(msg, args) == [msg |-> msg, args |-> args]

NilError == Errorf("", <<>>)

\* fmt.Errorf(prefix + ": %w", err)
Wrap(prefix, err) == Errorf(prefix \o ": " \o err.msg, err.args)

RECURSIVE TrimLeft(_)
TrimLeft(s) == IF s # <<>> /\ Head(s) = "/" THEN TrimLeft(Tail(s)) ELSE s

RECURSIVE TrimRight(_)
TrimRight(s) ==
    IF s # <<>> /\ s[Len(s)] = "/" THEN TrimRight(SubSeq(s, 1, Len(s) - 1)) ELSE s

\* strings.Trim(path, "/")
Trim(s) == TrimRight(TrimLeft(s))

\* strings.Split(s, "/"): the pieces between the slashes; one piece, s
\* itself, when s has no slash (also when s is empty).
RECURSIVE Split(_)
Split(s) ==
    IF \A i \in DOMAIN s : s[i] # "/" THEN <<s>>
    ELSE LET i == CHOOSE j \in DOMAIN s : s[j] = "/" /\ \A k \in 1 .. j - 1 : s[k] # "/"
         IN  <<SubSeq(s, 1, i - 1)>> \o Split(SubSeq(s, i + 1, Len(s)))

\* spiffeid.FromString of the upstream library: the scheme must be spiffe,
\* the trust domain non-empty, and the path empty or a slash followed by
\* non-empty segments, with no trailing slash.
FromString(str) ==
    LET segs == Split(Tail(str.path))
        err == IF str.scheme # "spiffe" THEN "scheme is missing or invalid"
               ELSE IF str.td = "" THEN "trust domain is missing"
               ELSE IF str.path = <<>> THEN ""
               ELSE IF \E i \in 1 .. Len(segs) - 1 : segs[i] = <<>>
                    THEN "path cannot contain empty segments"
               ELSE IF segs[Len(segs)] = <<>> THEN "path cannot have a trailing slash"
               ELSE ""
    IN  [id |-> [td |-> str.td, path |-> str.path], err |-> Errorf(err, <<>>)]

\* kv[key] = value on a Go map.
Put(kv, key, value) ==
    [k \in DOMAIN kv \cup {key} |-> IF k = key THEN value ELSE kv[k]]

\* for i := 0; i < len(pathParts); i += 2 { kv[pathParts[i]] = pathParts[i+1] }
RECURSIVE PairsFrom(_, _, _)
PairsFrom(parts, i, kv) ==
    IF i > Len(parts) THEN kv
    ELSE PairsFrom(parts, i + 2, Put(kv, parts[i], parts[i + 1]))

\* SPIFFEID.ParsePath
ParsePath(id) ==
    LET path == Trim(id.path)
        pathParts == Split(path)
    IN  IF Len(pathParts) % 2 # 0
        THEN [kv |-> <<>>,
              err |-> Errorf("invalid path, needs to be even in parts: %s", <<path>>)]
        ELSE [kv |-> PairsFrom(pathParts, 1, <<>>), err |-> NilError]

\* A ParseID that does not look at the path.
ParseIDNoPath(str) ==
    LET up == FromString(str)
    IN  IF up.err # NilError
        THEN [id |-> <<>>, err |-> Wrap("failed to parse spiffe id", up.err)]
        ELSE [id |-> <<up.id>>, err |-> NilError]

\* ParseID: the *SPIFFEID (<<>> is nil) and the error.
ParseID(str) ==
    LET up == FromString(str)
    IN  IF up.err # NilError
        THEN [id |-> <<>>, err |-> Wrap("failed to parse spiffe id", up.err)]
        ELSE IF ParsePath(up.id).err # NilError
        THEN [id |-> <<>>, err |-> Wrap("failed to parse path", ParsePath(up.id).err)]
        ELSE [id |-> <<up.id>>, err |-> NilError]

(***************************************************************************)
(* MatchFuncs.  A MatchFunc is the constructor that made it and its        *)
(* arguments; Apply calls it on a map.                                     *)
(***************************************************************************)
MatchFunc(op, key, value, funcs) == [op |-> op, key |-> key, value |-> value, funcs |-> funcs]

Equals(key, value) == MatchFunc("Equals", key, value, <<>>)

IsEmpty(key) == MatchFunc("IsEmpty", key, <<>>, <<>>)

IsNotEmpty(key) == MatchFunc("IsNotEmpty", key, <<>>, <<>>)

Or(funcs) == MatchFunc("Or", <<>>, <<>>, funcs)

Not(f) == MatchFunc("Not", <<>>, <<>>, <<f>>)

\* kv[key] as an expression: the zero value for a missing key.
Index(kv, key) == IF key \in DOMAIN kv THEN kv[key] ELSE <<>>

\* if val, ok := kv[key]; !ok || val != value
EqualsResult(kv, key, value) ==
    IF key \notin DOMAIN kv \/ kv[key] # value
    THEN Errorf("key %s does not match value %s", <<key, value>>)
    ELSE NilError

\* An IsEmpty that wants the key in the map.
IsEmptyResultPresent(kv, key) ==
    IF key \notin DOMAIN kv \/ kv[key] # <<>>
    THEN Errorf("key %s is not empty", <<key>>)
    ELSE NilError

\* if kv[key] != ""
IsEmptyResult(kv, key) ==
    IF Index(kv, key) # <<>> THEN Errorf("key %s is not empty", <<key>>) ELSE NilError

\* if kv[key] == ""
IsNotEmptyResult(kv, key) ==
    IF Index(kv, key) = <<>> THEN Errorf("key %s is empty", <<key>>) ELSE NilError

\* An Or that passes when no function failed.
OrResultNoFailure(errs) ==
    IF \E i \in DOMAIN errs : errs[i] # NilError
    THEN Errorf("none of the tests passed", <<>>)
    ELSE NilError

\* Or, once every function has been called: hasPassedTest.
OrResult(errs) ==
    IF \E i \in DOMAIN errs : errs[i] = NilError
    THEN NilError
    ELSE Errorf("none of the tests passed", <<>>)

\* Not, once the function has been called.
NotResult(err) ==
    IF err = NilError THEN Errorf("Did not receive an error in NOT call", <<>>) ELSE NilError

\* f(kv)
RECURSIVE Apply(_, _)
Apply(f, kv) ==
    CASE f.op = "Equals" -> EqualsResult(kv, f.key, f.value)
      [] f.op = "IsEmpty" -> IsEmptyResult(kv, f.key)
      [] f.op = "IsNotEmpty" -> IsNotEmptyResult(kv, f.key)
      [] f.op = "Or" -> OrResult([i \in DOMAIN f.funcs |-> Apply(f.funcs[i], kv)])
      [] f.op = "Not" -> NotResult(Apply(f.funcs[1], kv))

\* A loop over the functions that goes on after a failure and returns the
\* last error.
RECURSIVE MatchAllKeepGoing(_, _)
MatchAllKeepGoing(funcs, kv) ==
    IF funcs = <<>> THEN NilError
    ELSE LET err == Apply(funcs[Len(funcs)], kv)
         IN  IF err # NilError THEN err
             ELSE MatchAllKeepGoing(SubSeq(funcs, 1, Len(funcs) - 1), kv)

\* for _, f := range funcs { err := f(kv); if err != nil { return err } }
RECURSIVE MatchAll(_, _)
MatchAll(funcs, kv) ==
    IF funcs = <<>> THEN NilError
    ELSE LET err == Apply(Head(funcs), kv)
         IN  IF err # NilError THEN err ELSE MatchAll(Tail(funcs), kv)

\* SPIFFEID.Matches
Matches(id, funcs) ==
    IF ParsePath(id).err # NilError THEN ParsePath(id).err
    ELSE MatchAll(funcs, ParsePath(id).kv)

\* The keys and values of the maps and of the MatchFuncs.
KeyA == <<"a">>

KeyB == <<"b">>

\* Every map over the two keys, empty values included.
KVMaps == UNION { [ks -> {<<>>, KeyA, KeyB}] : ks \in SUBSET {KeyA, KeyB} }

MatchAtoms ==
    { Equals(KeyA, KeyB), IsEmpty(KeyA), IsNotEmpty(KeyA), IsEmpty(KeyB), IsNotEmpty(KeyB),
      Or(<<>>), Or(<<Equals(KeyA, KeyA), Equals(KeyB, KeyA)>>),
      Not(IsEmpty(KeyA)), Not(Or(<<Equals(KeyA, KeyB), IsNotEmpty(KeyB)>>)) }

FuncLists == SeqsUpTo(MatchAtoms, MaxFuncs)

\* The IDs Matches is called on: what ParseID returns for a few strings
\* (one pair, two pairs, the same key twice, a longer key).
SampleIDs ==
    { ParseID(IDString("spiffe", "example.com", p)).id :
          p \in { <<"/", "a", "/", "b">>,
                  <<"/", "a", "/", "b", "/", "b", "/", "a">>,
                  <<"/", "a", "/", "a", "/", "a", "/", "b">>,
                  <<"/", "a", "b", "/", "b">> } }

(***************************************************************************)
(* State                                                                   *)
(***************************************************************************)
\* Bounds of the model.
NumCallers == 2

MaxFailures == 3

MaxCalls == 66

\* Connection attempts in a row that find the server unreachable.
MaxStreak == 57

Callers == 1 .. NumCallers

\* The single caller of Spec (the transport's dialer, or a polling test).
OneCaller == {1}

VARIABLES
    endpoints,     \* XDSClient.endpoints: service -> (eps, ok) as Load returns it
    watching,      \* XDSClient.watching: service -> the sync.Once stored (0: none)
    onceDone,      \* the sync.Once objects whose Do has run
    nodeID,        \* XDSClient.nodeID
    cpc,           \* caller -> where it is in GetEndpoints
    csvc,          \* caller -> the service it asks for
    conce,         \* caller -> the sync.Once LoadOrStore returned
    cres,          \* caller -> what its last GetEndpoints returned
    cseen,         \* caller -> the cache entry when its last call was made
    nStarted,      \* service -> goroutines started for watchEndpointsRetried
    wpc,           \* service -> where its watch task is
    backoff,       \* service -> the Backoff of watchEndpointsRetried
    delay,         \* service -> the delay of the current or last sleep
    ret,           \* service -> what the last watchEndpoints call returned
    req,           \* service -> the DiscoveryRequest of the session
    resetBackoff,  \* service -> the session's resetBackoff
    streak,        \* service -> attempts in a row that failed with no response
    cancelled,     \* service -> the ctx of its watch task is done
    building,      \* service -> the endpoints slice its session is filling
    srv,           \* service -> the server's stream handler
    srvReq,        \* service -> the last request the server received
    rx,            \* service -> what the next stream.Recv returns
    accepted,      \* service -> the last response whose list was stored
    outstanding,   \* service -> requests sent on its stream and not yet answered
    bo,            \* SpecBackoff: the Backoff under test
    boLast,        \* SpecBackoff: what its last Duration call returned
    boCalls,       \* SpecBackoff: Duration calls since NewBackoff or Reset
    boBefore,      \* SpecBackoff: Duration calls before the last Reset (-1: no Reset)
    idStr,         \* SpecParse: the string given to ParseID
    idRet,         \* SpecParse: what ParseID returned
    mID,           \* SpecMatch: the *SPIFFEID Matches is called on (<<>>: none)
    mKV,           \* SpecMatch: the map MatchFuncs are applied to (<<>>: none)
    mFuncs,        \* SpecMatch: the MatchFuncs of the last call
    mErr,          \* SpecMatch: what the last Matches call returned
    mRes,          \* SpecMatch: what each MatchFunc of the last application returned
    nTD,           \* SpecNewID: the trust domain given to NewID
    nKV,           \* SpecNewID: the map given to NewID
    nOrder,        \* SpecNewID: the order in which range kv yields the keys
    nRet,          \* SpecNewID: what NewID returned
    nParsed,       \* SpecNewID: what ParsePath returned on that ID
    peerEndpoints, \* a second XDSClient: its endpoints map
    peerWatching,  \* a second XDSClient: service -> its watch task was started
    peerRes,       \* a second XDSClient: what its last GetEndpoints returned
    dAddr,         \* DialContext: the address it was called with (<<>>: none)
    dPc,           \* DialContext: where it is
    dTarget,       \* DialContext: the address it dialed
    dSel,          \* DialContext: the list selectEndpoint was called with
    sX509,         \* SPIREHelper.X509Source ("nil" or "set")
    sBundle,       \* SPIREHelper.BundleSource ("nil" or "set")
    sReady,        \* SPIREHelper.readyCh ("nil", "open", "closed")
    sBackoff,      \* SPIREHelper.backoff (<<>>: nil)
    spc,           \* caller -> where it is in EnsureSPIRE and WaitReady
    lpc,           \* caller -> where the bootstrap goroutine it started is
    sDelay,        \* caller -> what the last time.Sleep of its goroutine was given
    sWriters,      \* the goroutines that have assigned s.X509Source
    sCloses,       \* how many close(s.readyCh) have been executed
    sPanic         \* the panic that ended the process ("": none)

clientVars == <<endpoints, watching, onceDone, nodeID>>

callerVars == <<cpc, csvc, conce, cres, cseen>>

watchVars == <<nStarted, wpc, backoff, delay, ret, req, resetBackoff, streak, cancelled,
               building>>

streamVars == <<srv, srvReq, rx, accepted, outstanding>>

boVars == <<bo, boLast, boCalls, boBefore>>

newIDVars == <<nTD, nKV, nOrder, nRet, nParsed>>

idVars == <<idStr, idRet, mID, mKV, mFuncs, mErr, mRes, newIDVars>>

peerVars == <<peerEndpoints, peerWatching, peerRes>>

dialVars == <<dAddr, dPc, dTarget, dSel>>

spireVars == <<sX509, sBundle, sReady, sBackoff, spc, lpc, sDelay, sWriters, sCloses, sPanic>>

vars == <<clientVars, callerVars, watchVars, streamVars, boVars, idVars,
          peerVars, dialVars, spireVars>>

\* A cache entry as sync.Map.Load returns it.
Absent == [found |-> FALSE, eps |-> <<>>]

Present(eps) == [found |-> TRUE, eps |-> eps]

\* A GetEndpoints result: the slice and the error ("" is nil).
Result(eps, err) == [eps |-> eps, err |-> err]

NoResult == Result(<<>>, "never called")

NotYetDiscovered(service) == "endpoints not yet discovered for " \o service

\* The value of a (resetBackoff, err) pair watchEndpoints returns.
Returned(reset, err) == [reset |-> reset, err |-> err]

NotReturned == Returned(FALSE, "running")

NoStreak == [fails |-> 0, before |-> 0]

\* A resource name that is the same for every service.
XdsResourceNameShared(service) == "svc_cluster"

\* Clusters in Cofide Agent xDS have a _cluster suffix.
XdsResourceName(service) == service \o "_cluster"

NewRequest(service) ==
    [Node |-> nodeID, TypeUrl |-> EndpointType,
     ResourceNames |-> <<XdsResourceName(service)>>,
     VersionInfo |-> "", ResponseNonce |-> ""]

NoRequest ==
    [Node |-> "", TypeUrl |-> "", ResourceNames |-> <<>>,
     VersionInfo |-> "", ResponseNonce |-> ""]

\* ParseID and Matches have not been called.
NotCalled == Errorf("not called", <<>>)

NotParsed == [id |-> <<>>, err |-> NotCalled]

\* ParsePath has not been called.
NoPath == [kv |-> <<>>, err |-> NotCalled]

\* NewID has not been called, and has nothing to be called with.
InitNewIDUnused ==
    /\ nTD = ""
    /\ nKV = <<>>
    /\ nOrder = <<>>
    /\ nRet = NotParsed
    /\ nParsed = NoPath

InitMatchUnused ==
    /\ InitNewIDUnused
    /\ mID = <<>>
    /\ mKV = <<>>
    /\ mFuncs = <<>>
    /\ mErr = NotCalled
    /\ mRes = <<>>

InitIDUnused ==
    /\ idStr = IDString("", "", <<>>)
    /\ idRet = NotParsed
    /\ InitMatchUnused

InitBackoffUnused ==
    /\ bo = NewBackoff(DefaultInitialDelay, DefaultMaxDelay)
    /\ boLast = {}
    /\ boCalls = 0
    /\ boBefore = -1

\* A second client that has not been asked for anything.
InitPeerUnused ==
    /\ peerEndpoints = [s \in Services |-> Absent]
    /\ peerWatching = [s \in Services |-> FALSE]
    /\ peerRes = NoResult

\* selectEndpoint has not been called in this dial.
NotSelected == [called |-> FALSE, from |-> <<>>]

\* A transport whose dialer has not been called.
InitDialUnused ==
    /\ dAddr = <<>>
    /\ dPc = "idle"
    /\ dTarget = <<>>
    /\ dSel = NotSelected

\* NewSPIREHelper: no source, no channel, no Backoff, nothing started.
InitSpireUnused ==
    /\ sX509 = "nil"
    /\ sBundle = "nil"
    /\ sReady = "nil"
    /\ sBackoff = <<>>
    /\ spc = [c \in Callers |-> "idle"]
    /\ lpc = [c \in Callers |-> "none"]
    /\ sDelay = [c \in Callers |-> <<>>]
    /\ sWriters = {}
    /\ sCloses = 0
    /\ sPanic = ""

InitExtUnused == InitPeerUnused /\ InitDialUnused /\ InitSpireUnused

\* A new client that has not been asked for any of the services S.
InitServices(S) ==
    /\ endpoints = [s \in S |-> Absent]
    /\ watching = [s \in S |-> 0]
    /\ onceDone = {}
    /\ cpc = [c \in Callers |-> "idle"]
    /\ csvc = [c \in Callers |-> CHOOSE s \in S : TRUE]
    /\ conce = [c \in Callers |-> 0]
    /\ cres = [c \in Callers |-> NoResult]
    /\ cseen = [c \in Callers |-> Absent]
    /\ nStarted = [s \in S |-> 0]
    /\ streak = [s \in S |-> NoStreak]
    /\ cancelled = [s \in S |-> FALSE]
    /\ building = [s \in S |-> <<>>]
    /\ wpc = [s \in S |-> "idle"]
    /\ backoff = [s \in S |-> NewBackoff(DefaultInitialDelay, DefaultMaxDelay)]
    /\ delay = [s \in S |-> {}]
    /\ ret = [s \in S |-> NotReturned]
    /\ req = [s \in S |-> NoRequest]
    /\ resetBackoff = [s \in S |-> FALSE]
    /\ srv = [s \in S |-> "none"]
    /\ srvReq = [s \in S |-> NoRequest]
    /\ rx = [s \in S |-> Nothing]
    /\ accepted = [s \in S |-> <<>>]
    /\ outstanding = [s \in S |-> 0]

InitClient == InitServices(Services) /\ nodeID = NodeID /\ InitExtUnused

Init == InitClient /\ InitBackoffUnused /\ InitIDUnused

(***************************************************************************)
(* XDSClient.GetEndpoints, one action per statement                        *)
(***************************************************************************)
\* A lookup that takes an empty list for a missing entry.
LookupNonEmpty(m, service) ==
    IF m[service].eps = <<>> THEN Absent ELSE m[service]

\* c.endpoints.Load(service): the entry and whether there is one.
Lookup(m, service) == m[service]

\* A Store in place of LoadOrStore: the caller's Once replaces the one stored.
StoreOnce(m, service, once) == [m EXCEPT ![service] = once]

\* c.watching.LoadOrStore(service, &sync.Once{}): the map afterwards.
LoadOrStore(m, service, once) ==
    IF m[service] = 0 THEN [m EXCEPT ![service] = once] ELSE m

\* go c.watchEndpointsRetried(context.Background(), service)
StartWatch(s) ==
    /\ nStarted' = [nStarted EXCEPT ![s] = @ + 1]
    /\ wpc' = [wpc EXCEPT ![s] = "connect"]
    /\ backoff' = [backoff EXCEPT ![s] = NewBackoff(DefaultInitialDelay, DefaultMaxDelay)]
    /\ UNCHANGED <<delay, ret, req, resetBackoff, streak, cancelled, building>>

\* A call that starts a watch task also when it finds the list in the cache.
CallRewatch(c, s) ==
    /\ cpc[c] \in {"idle", "done"}
    /\ csvc' = [csvc EXCEPT ![c] = s]
    /\ cseen' = [cseen EXCEPT ![c] = endpoints[s]]
    /\ LET l == Lookup(endpoints, s)
       IN  IF l.found
           THEN /\ cres' = [cres EXCEPT ![c] = Result(l.eps, "")]
                /\ cpc' = [cpc EXCEPT ![c] = "done"]
                /\ StartWatch(s)
           ELSE /\ cres' = [cres EXCEPT ![c] = NoResult]
                /\ cpc' = [cpc EXCEPT ![c] = "loadorstore"]
                /\ UNCHANGED watchVars
    /\ UNCHANGED <<clientVars, conce, streamVars, boVars, idVars,
                   peerVars, dialVars, spireVars>>

\* The first statement of GetEndpoints: Load, and the return of a cached list.
GetEndpointsLoad(c, s) ==
    /\ cpc[c] \in {"idle", "done"}
    /\ csvc' = [csvc EXCEPT ![c] = s]
    /\ cseen' = [cseen EXCEPT ![c] = endpoints[s]]
    /\ LET l == Lookup(endpoints, s)
       IN  IF l.found
           THEN /\ cres' = [cres EXCEPT ![c] = Result(l.eps, "")]
                /\ cpc' = [cpc EXCEPT ![c] = "done"]
           ELSE /\ cres' = [cres EXCEPT ![c] = NoResult]
                /\ cpc' = [cpc EXCEPT ![c] = "loadorstore"]
    /\ UNCHANGED <<clientVars, conce, watchVars, streamVars, boVars, idVars,
                   peerVars, spireVars>>

\* The call, up to the first statement, made by a caller that is not the
\* transport's dialer.
Call(c, s) == GetEndpointsLoad(c, s) /\ UNCHANGED dialVars

\* watchOnce, _ := c.watching.LoadOrStore(service, &sync.Once{}).  The Once a
\* caller allocates is named by the caller.
CallLoadOrStore(c) ==
    /\ cpc[c] = "loadorstore"
    /\ watching' = LoadOrStore(watching, csvc[c], c)
    /\ conce' = [conce EXCEPT ![c] = watching'[csvc[c]]]
    /\ cpc' = [cpc EXCEPT ![c] = "do"]
    /\ UNCHANGED <<endpoints, onceDone, nodeID, csvc, cres, cseen, watchVars, streamVars, boVars, idVars,
                   peerVars, dialVars, spireVars>>

\* A Do whose function runs the watch itself, with no go statement: the
\* caller never comes back.
OnceDoFirstNoGo(c) ==
    /\ cpc[c] = "do"
    /\ <<csvc[c], conce[c]>> \notin onceDone
    /\ onceDone' = onceDone \cup {<<csvc[c], conce[c]>>}
    /\ StartWatch(csvc[c])
    /\ cpc' = [cpc EXCEPT ![c] = "in watchEndpointsRetried"]
    /\ UNCHANGED <<endpoints, watching, nodeID, csvc, conce, cres, cseen, streamVars, boVars, idVars,
                   peerVars, dialVars, spireVars>>

\* watchOnce.Do(func): the first Do of this Once starts the watch task.
OnceDoFirst(c) ==
    /\ cpc[c] = "do"
    /\ <<csvc[c], conce[c]>> \notin onceDone
    /\ onceDone' = onceDone \cup {<<csvc[c], conce[c]>>}
    /\ StartWatch(csvc[c])
    /\ cpc' = [cpc EXCEPT ![c] = "return"]
    /\ UNCHANGED <<endpoints, watching, nodeID, csvc, conce, cres, cseen, streamVars, boVars, idVars,
                   peerVars, dialVars, spireVars>>

\* watchOnce.Do(func) on a Once whose Do has run: nothing happens.
OnceDoAgain(c) ==
    /\ cpc[c] = "do"
    /\ <<csvc[c], conce[c]>> \in onceDone
    /\ cpc' = [cpc EXCEPT ![c] = "return"]
    /\ UNCHANGED <<clientVars, csvc, conce, cres, cseen, watchVars, streamVars, boVars, idVars,
                   peerVars, dialVars, spireVars>>

\* return nil, fmt.Errorf("endpoints not yet discovered for %s", service)
CallReturn(c) ==
    /\ cpc[c] = "return"
    /\ cres' = [cres EXCEPT ![c] = Result(<<>>, NotYetDiscovered(csvc[c]))]
    /\ cpc' = [cpc EXCEPT ![c] = "done"]
    /\ UNCHANGED <<clientVars, csvc, conce, cseen, watchVars, streamVars, boVars, idVars,
                   peerVars, dialVars, spireVars>>

\* The steps of caller c inside GetEndpoints, after the call.
CallerStep(c) ==
    CallLoadOrStore(c) \/ OnceDoFirst(c) \/ OnceDoAgain(c) \/ CallReturn(c)

(***************************************************************************)
(* watchEndpoints: one connection attempt (a session)                      *)
(***************************************************************************)
\* len(resp.Resources) > 0 and Resources[0].UnmarshalTo(&cla) fails: the
\* response is logged and skipped.
Skipped(resp) == Len(resp.Resources) > 0 /\ ~ resp.Resources[1].decodes

\* The endpoints of every payload that decodes, one payload after the other.
RECURSIVE EndpointsOfAll(_)
EndpointsOfAll(resources) ==
    IF resources = <<>> THEN <<>>
    ELSE (IF Head(resources).decodes THEN ClaToEndpoints(Head(resources).Endpoints)
          ELSE <<>>) \o EndpointsOfAll(Tail(resources))

\* A list built from all the payloads of the response.
DecodedAll(resp) == EndpointsOfAll(resp.Resources)

\* The list the session builds from a response it does not skip.
Decoded(resp) ==
    IF Len(resp.Resources) > 0
    THEN ClaToEndpoints(resp.Resources[1].Endpoints)
    ELSE <<>>

\* A store that adds the new list to the list in the cache.
StoreMerged(m, service, eps) == [m EXCEPT ![service] = Present(@.eps \o eps)]

\* A store that writes the list into the slot of every service.
StoreAll(m, service, eps) == [t \in DOMAIN m |-> Present(eps)]

\* c.endpoints.Store(serviceName, endpoints)
Store(m, service, eps) == [m EXCEPT ![service] = Present(eps)]

\* The cache after a response, had the store been left inside the
\* len(resp.Resources) > 0 branch: a response with no resources stores nothing.
CacheAfterIfResources(m, service, resp) ==
    IF Len(resp.Resources) = 0 \/ Skipped(resp) THEN m
    ELSE Store(m, service, Decoded(resp))

\* The cache after a response, without the continue: a payload that fails
\* to decode stores the empty list.
CacheAfterNoContinue(m, service, resp) ==
    Store(m, service, IF Skipped(resp) THEN <<>> ELSE Decoded(resp))

\* The cache after a response, had an empty list not been stored.
CacheAfterNonEmpty(m, service, resp) ==
    IF Skipped(resp) \/ Decoded(resp) = <<>> THEN m
    ELSE Store(m, service, Decoded(resp))

\* The cache after the session has handled a response.
CacheAfter(m, service, resp) ==
    IF Skipped(resp) THEN m ELSE Store(m, service, Decoded(resp))

\* The failures in a row after an attempt of s has ended with err: a failure
\* to open the stream, or a send or receive failure of a session that got
\* no response (its request still has no version and no nonce), adds one;
\* any other end starts from none.  before is the count the attempt started
\* with, kept while the task sleeps.
StreakAfter(s, err) ==
    IF \/ err = "Failed to create xDS stream"
       \/ err \notin {"", "EOF"} /\ req[s].VersionInfo = "" /\ req[s].ResponseNonce = ""
    THEN [fails |-> streak[s].fails + 1, before |-> streak[s].fails]
    ELSE [fails |-> 0, before |-> streak[s].fails]

\* A supervisor that computes the next delay without looking at reset.
SuperviseNoReset(s, reset, err) ==
    /\ streak' = [streak EXCEPT ![s] = StreakAfter(s, err)]
    /\ ret' = [ret EXCEPT ![s] = Returned(reset, err)]
    /\ backoff' = [backoff EXCEPT ![s] = Advance(@)]
    /\ delay' = [delay EXCEPT ![s] = Delay(backoff[s])]
    /\ wpc' = [wpc EXCEPT ![s] = "sleep"]

\* A supervisor that returns when the watch failed.
SuperviseGiveUp(s, reset, err) ==
    /\ streak' = [streak EXCEPT ![s] = StreakAfter(s, err)]
    /\ ret' = [ret EXCEPT ![s] = Returned(reset, err)]
    /\ backoff' = backoff
    /\ delay' = delay
    /\ wpc' = [wpc EXCEPT ![s] = IF err = "" THEN "sleep" ELSE "exited"]

\* A supervisor whose Backoff is one object shared by all the watch tasks.
SuperviseShared(s, reset, err) ==
    LET b == IF reset THEN Reset(backoff[s]) ELSE backoff[s]
    IN  /\ streak' = [streak EXCEPT ![s] = StreakAfter(s, err)]
        /\ ret' = [ret EXCEPT ![s] = Returned(reset, err)]
        /\ backoff' = [t \in DOMAIN backoff |-> Advance(b)]
        /\ delay' = [delay EXCEPT ![s] = Delay(b)]
        /\ wpc' = [wpc EXCEPT ![s] = "sleep"]

\* watchEndpointsRetried after watchEndpoints has returned (reset, err):
\* Reset if told to, then the select on ctx.Done() and
\* time.After(backoff.Duration()).  With ctx already done and a timer that
\* has yet to run, only ctx.Done() is ready ("ctxdone").
Supervise(s, reset, err) ==
    LET b == IF reset THEN Reset(backoff[s]) ELSE backoff[s]
    IN  /\ streak' = [streak EXCEPT ![s] = StreakAfter(s, err)]
        /\ ret' = [ret EXCEPT ![s] = Returned(reset, err)]
        /\ backoff' = [backoff EXCEPT ![s] = Advance(b)]
        /\ delay' = [delay EXCEPT ![s] = Delay(b)]
        /\ wpc' = [wpc EXCEPT ![s] = IF cancelled[s] /\ Delay(b) # {}
                                     THEN "ctxdone" ELSE "sleep"]

\* A return that also drops the service's cache entry.
ReturnForgets(s, reset, err) ==
    /\ Supervise(s, reset, err)
    /\ endpoints' = [endpoints EXCEPT ![s] = Absent]
    /\ srv' = [srv EXCEPT ![s] = "none"]
    /\ rx' = [rx EXCEPT ![s] = Nothing]
    /\ outstanding' = [outstanding EXCEPT ![s] = 0]
    /\ UNCHANGED <<watching, onceDone, nodeID, callerVars, nStarted, cancelled, building, req, resetBackoff,
                   srvReq, accepted, boVars, idVars,
                   peerVars, dialVars, spireVars>>

\* watchEndpoints returns once the stream is open: the deferred CloseSend
\* ends the stream, and the supervisor takes over.
Return(s, reset, err) ==
    /\ Supervise(s, reset, err)
    /\ srv' = [srv EXCEPT ![s] = "none"]
    /\ rx' = [rx EXCEPT ![s] = Nothing]
    /\ outstanding' = [outstanding EXCEPT ![s] = 0]
    /\ UNCHANGED <<clientVars, callerVars, nStarted, cancelled, building, req, resetBackoff,
                   srvReq, accepted, boVars, idVars,
                   peerVars, dialVars, spireVars>>

\* An attempt that ends without a reset lengthens the next delay; the model
\* lets it happen while the counter is below MaxFailures.
MayFail(s, reset) == reset \/ backoff[s].n < MaxFailures

\* c.client.StreamAggregatedResources(ctx) succeeds.
Connect(s) ==
    /\ wpc[s] = "connect"
    /\ wpc' = [wpc EXCEPT ![s] = "send"]
    /\ req' = [req EXCEPT ![s] = NewRequest(s)]
    /\ resetBackoff' = [resetBackoff EXCEPT ![s] = FALSE]
    /\ srv' = [srv EXCEPT ![s] = "recv"]
    /\ rx' = [rx EXCEPT ![s] = Nothing]
    /\ outstanding' = [outstanding EXCEPT ![s] = 0]
    /\ UNCHANGED <<clientVars, callerVars, nStarted, cancelled, building, backoff, delay, ret, streak,
                   srvReq, accepted, boVars, idVars,
                   peerVars, dialVars, spireVars>>

\* c.client.StreamAggregatedResources(ctx) fails: return false, err.
ConnectFail(s) ==
    /\ wpc[s] = "connect"
    /\ MayFail(s, FALSE)
    /\ Supervise(s, FALSE, "Failed to create xDS stream")
    /\ UNCHANGED <<clientVars, callerVars, nStarted, cancelled, building, req, resetBackoff,
                   streamVars, boVars, idVars,
                   peerVars, dialVars, spireVars>>

\* stream.Send(req) succeeds: the server's stream.Recv gets the request.  The
\* select finds ctx not done and takes its default, the blocking Recv.
Send(s) ==
    /\ wpc[s] = "send"
    /\ srv[s] = "recv"
    /\ ~ cancelled[s]
    /\ wpc' = [wpc EXCEPT ![s] = "recv"]
    /\ srvReq' = [srvReq EXCEPT ![s] = req[s]]
    /\ srv' = [srv EXCEPT ![s] = "pending"]
    /\ outstanding' = [outstanding EXCEPT ![s] = @ + 1]
    /\ UNCHANGED <<clientVars, callerVars, nStarted, cancelled, building, backoff, delay, ret, streak, req,
                   resetBackoff, rx, accepted, boVars, idVars,
                   peerVars, dialVars, spireVars>>

\* stream.Send(req) fails: return resetBackoff, err.
SendFail(s) ==
    /\ wpc[s] = "send"
    /\ MayFail(s, resetBackoff[s])
    /\ Return(s, resetBackoff[s], "failed to send xDS discovery request")

\* A receive that does not take the response: the loop goes back to its
\* send with the request unanswered.
RecvResponseNoWait(s) ==
    /\ wpc[s] = "recv"
    /\ rx[s].kind = "resp"
    /\ wpc' = [wpc EXCEPT ![s] = "send"]
    /\ UNCHANGED <<clientVars, callerVars, nStarted, cancelled, building, backoff, delay, ret, streak, req,
                   resetBackoff, streamVars, boVars, idVars,
                   peerVars, dialVars, spireVars>>

\* A receive that ends the session when the payload does not decode.
RecvResponseEndsOnSkip(s) ==
    /\ wpc[s] = "recv"
    /\ rx[s].kind = "resp"
    /\ IF Skipped(rx[s].resp)
       THEN Return(s, TRUE, "Failed to unmarshal ClusterLoadAssignment")
       ELSE /\ resetBackoff' = [resetBackoff EXCEPT ![s] = TRUE]
            /\ req' = [req EXCEPT ![s].VersionInfo = rx[s].resp.VersionInfo,
                                  ![s].ResponseNonce = rx[s].resp.Nonce]
            /\ endpoints' = CacheAfter(endpoints, s, rx[s].resp)
            /\ accepted' = [accepted EXCEPT ![s] = <<rx[s].resp>>]
            /\ rx' = [rx EXCEPT ![s] = Nothing]
            /\ outstanding' = [outstanding EXCEPT ![s] = @ - 1]
            /\ wpc' = [wpc EXCEPT ![s] = "send"]
            /\ UNCHANGED <<watching, onceDone, nodeID, callerVars, nStarted, cancelled, building,
                           backoff, delay, ret, streak, srv, srvReq, boVars, idVars,
                           peerVars, dialVars, spireVars>>

\* stream.Recv() returns a response.
RecvResponse(s) ==
    /\ wpc[s] = "recv"
    /\ rx[s].kind = "resp"
    /\ LET resp == rx[s].resp
       IN  /\ resetBackoff' = [resetBackoff EXCEPT ![s] = TRUE]
           /\ req' = [req EXCEPT ![s].VersionInfo = resp.VersionInfo,
                                 ![s].ResponseNonce = resp.Nonce]
           /\ endpoints' = CacheAfter(endpoints, s, resp)
           /\ accepted' = [accepted EXCEPT ![s] = IF Skipped(resp) THEN @ ELSE <<resp>>]
    /\ rx' = [rx EXCEPT ![s] = Nothing]
    /\ outstanding' = [outstanding EXCEPT ![s] = @ - 1]
    /\ wpc' = [wpc EXCEPT ![s] = "send"]
    /\ UNCHANGED <<watching, onceDone, nodeID, callerVars, nStarted, cancelled, building, backoff, delay, ret, streak,
                   srv, srvReq, boVars, idVars,
                   peerVars, dialVars, spireVars>>

\* stream.Recv() returns io.EOF: resetBackoff = true; return resetBackoff, err.
RecvEOF(s) ==
    /\ wpc[s] = "recv"
    /\ rx[s].kind = "eof"
    /\ Return(s, TRUE, "EOF")

\* stream.Recv() returns another error: return resetBackoff, wrapped err.
RecvError(s) ==
    /\ wpc[s] = "recv"
    /\ rx[s].kind = "err"
    /\ Return(s, resetBackoff[s], "failed to receive xDS discovery response")

\* A supervisor that stops retrying after two failures in a row.
WakeGivesUp(s) ==
    /\ wpc[s] = "sleep"
    /\ wpc' = [wpc EXCEPT ![s] = IF streak[s].fails >= 2 THEN "exited" ELSE "connect"]
    /\ streak' = [streak EXCEPT ![s].before = 0]
    /\ UNCHANGED <<clientVars, callerVars, nStarted, cancelled, building, backoff, delay, ret, req,
                   resetBackoff, streamVars, boVars, idVars,
                   peerVars, dialVars, spireVars>>

\* case <-time.After(backoff.Duration()): the next attempt starts.
Wake(s) ==
    /\ wpc[s] = "sleep"
    /\ wpc' = [wpc EXCEPT ![s] = "connect"]
    /\ streak' = [streak EXCEPT ![s].before = 0]
    /\ UNCHANGED <<clientVars, callerVars, nStarted, cancelled, building, backoff, delay, ret, req,
                   resetBackoff, streamVars, boVars, idVars,
                   peerVars, dialVars, spireVars>>

(***************************************************************************)
(* The discovery server's stream handler (StreamAggregatedResources of the *)
(* mock ADS server): one response, end of stream or error per request.     *)
(***************************************************************************)
ServerRespond(s, r) ==
    /\ srv[s] = "pending"
    /\ rx' = [rx EXCEPT ![s] = Incoming("resp", r)]
    /\ srv' = [srv EXCEPT ![s] = "recv"]
    /\ UNCHANGED <<clientVars, callerVars, watchVars, srvReq, accepted, outstanding, boVars, idVars,
                   peerVars, dialVars, spireVars>>

\* respCh is closed: the handler returns nil and the client reads io.EOF.
ServerClose(s) ==
    /\ srv[s] = "pending"
    /\ rx' = [rx EXCEPT ![s] = Incoming("eof", NoResponse)]
    /\ srv' = [srv EXCEPT ![s] = "done"]
    /\ UNCHANGED <<clientVars, callerVars, watchVars, srvReq, accepted, outstanding, boVars, idVars,
                   peerVars, dialVars, spireVars>>

\* An error from errCh: the handler returns it and the client's Recv fails.
ServerError(s) ==
    /\ srv[s] = "pending"
    /\ MayFail(s, resetBackoff[s])
    /\ rx' = [rx EXCEPT ![s] = Incoming("err", NoResponse)]
    /\ srv' = [srv EXCEPT ![s] = "done"]
    /\ UNCHANGED <<clientVars, callerVars, watchVars, srvReq, accepted, outstanding, boVars, idVars,
                   peerVars, dialVars, spireVars>>

WatchStep(s) ==
    \/ Connect(s) \/ ConnectFail(s)
    \/ Send(s) \/ SendFail(s)
    \/ RecvResponse(s) \/ RecvEOF(s) \/ RecvError(s)
    \/ Wake(s)

ServerStep(s) ==
    \/ \E r \in Responses : ServerRespond(s, r)
    \/ ServerClose(s)
    \/ ServerError(s)

Next ==
    \/ \E c \in OneCaller, s \in Services : Call(c, s)
    \/ \E c \in OneCaller : CallerStep(c)
    \/ \E s \in Services : WatchStep(s)
    \/ \E s \in Services : ServerStep(s)

Spec == Init /\ [][Next]_vars

(***************************************************************************)
(* Spec with the fairness of the Go scheduler: a watch task that can take  *)
(* a step (a call that returns, a timer that fires) takes it.  Nothing is  *)
(* assumed of the server or of the callers.                                *)
(***************************************************************************)
FairSpec == Spec /\ \A s \in Services : WF_vars(WatchStep(s))

(***************************************************************************)
(* watchEndpointsRetried(ctx, service) with a ctx that its owner can       *)
(* cancel.  (GetEndpoints passes context.Background(), which is never      *)
(* done: in Spec no task is ever cancelled.)                               *)
(***************************************************************************)
\* The owner of the ctx of the task of s cancels it.
Cancel(s) ==
    /\ wpc[s] \in {"connect", "send", "recv", "sleep"}
    /\ ~ cancelled[s]
    /\ cancelled' = [cancelled EXCEPT ![s] = TRUE]
    /\ UNCHANGED <<clientVars, callerVars, nStarted, building, wpc, backoff, delay, ret,
                   req, resetBackoff, streak, streamVars, boVars, idVars,
                   peerVars, dialVars, spireVars>>

\* stream.Send(req) succeeds and the select finds ctx done:
\* "xDS watch cancelled", return resetBackoff, nil.
SendCancelled(s) ==
    /\ wpc[s] = "send"
    /\ srv[s] = "recv"
    /\ cancelled[s]
    /\ Supervise(s, resetBackoff[s], "")
    /\ srvReq' = [srvReq EXCEPT ![s] = req[s]]
    /\ srv' = [srv EXCEPT ![s] = "none"]
    /\ rx' = [rx EXCEPT ![s] = Nothing]
    /\ outstanding' = [outstanding EXCEPT ![s] = 0]
    /\ UNCHANGED <<clientVars, callerVars, nStarted, cancelled, building, req, resetBackoff,
                   accepted, boVars, idVars,
                   peerVars, dialVars, spireVars>>

\* ctx is done while the task is blocked in stream.Recv(): the stream, opened
\* with ctx, is aborted and Recv returns the error.
RecvAborted(s) ==
    /\ wpc[s] = "recv"
    /\ cancelled[s]
    /\ Return(s, resetBackoff[s], "failed to receive xDS discovery response")

\* An exit that also drops the service's cache entry.
ExitForgets(s) ==
    /\ wpc[s] \in {"sleep", "ctxdone"}
    /\ cancelled[s]
    /\ wpc' = [wpc EXCEPT ![s] = "exited"]
    /\ endpoints' = [endpoints EXCEPT ![s] = Absent]
    /\ UNCHANGED <<watching, onceDone, nodeID, callerVars, nStarted, cancelled, building, backoff,
                   delay, ret, req, resetBackoff, streak, streamVars, boVars, idVars,
                   peerVars, dialVars, spireVars>>

\* case <-ctx.Done(): return.
Exit(s) ==
    /\ wpc[s] \in {"sleep", "ctxdone"}
    /\ cancelled[s]
    /\ wpc' = [wpc EXCEPT ![s] = "exited"]
    /\ UNCHANGED <<clientVars, callerVars, nStarted, cancelled, building, backoff, delay, ret, req,
                   resetBackoff, streak, streamVars, boVars, idVars,
                   peerVars, dialVars, spireVars>>

CancelStep(s) == SendCancelled(s) \/ RecvAborted(s) \/ Exit(s)

\* The server answers, or ends the stream, or cannot be reached.
NextCancel ==
    \/ \E c \in OneCaller, s \in Services : Call(c, s)
    \/ \E c \in OneCaller : CallerStep(c)
    \/ \E s \in Services : Connect(s) \/ ConnectFail(s) \/ Send(s) \/ SendFail(s)
    \/ \E s \in Services : RecvResponse(s) \/ RecvEOF(s) \/ Wake(s)
    \/ \E s \in Services, r \in FewResponses : ServerRespond(s, r)
    \/ \E s \in Services : ServerClose(s)
    \/ \E s \in Services : Cancel(s)
    \/ \E s \in Services : CancelStep(s)

SpecCancel == Init /\ [][NextCancel]_vars

\* SpecCancel with the fairness of FairSpec.  A ctx cancelled while the task
\* sleeps races with the timer; the select takes either.
FairSpecCancel == SpecCancel /\ \A s \in Services : WF_vars(WatchStep(s) \/ CancelStep(s))

(***************************************************************************)
(* Spec with a server that can stay unreachable: the stream cannot be      *)
(* opened for up to MaxStreak attempts in a row (with the default backoff, *)
(* 56 attempts take about eight and a half minutes).                       *)
(***************************************************************************)
\* c.client.StreamAggregatedResources(ctx) fails once more.
ConnectFailAgain(s) ==
    /\ wpc[s] = "connect"
    /\ backoff[s].n < MaxStreak
    /\ Supervise(s, FALSE, "Failed to create xDS stream")
    /\ UNCHANGED <<clientVars, callerVars, nStarted, cancelled, building, req, resetBackoff,
                   streamVars, boVars, idVars,
                   peerVars, dialVars, spireVars>>

NextStreak ==
    \/ Next
    \/ \E s \in Services : ConnectFailAgain(s)

SpecStreak == Init /\ [][NextStreak]_vars

(***************************************************************************)
(* The receive of a response in the steps of the code: the list is built   *)
(* in a slice of the session, one append per endpoint, and then stored.    *)
(* Several callers read the cache in between.                              *)
(***************************************************************************)
\* stream.Recv() returns a response that decodes; endpoints := []Endpoint{}.
RecvDecode(s) ==
    /\ wpc[s] = "recv"
    /\ rx[s].kind = "resp"
    /\ ~ Skipped(rx[s].resp)
    /\ resetBackoff' = [resetBackoff EXCEPT ![s] = TRUE]
    /\ req' = [req EXCEPT ![s].VersionInfo = rx[s].resp.VersionInfo,
                          ![s].ResponseNonce = rx[s].resp.Nonce]
    /\ building' = [building EXCEPT ![s] = <<>>]
    /\ wpc' = [wpc EXCEPT ![s] = "build"]
    /\ UNCHANGED <<clientVars, callerVars, nStarted, cancelled, backoff, delay, ret,
                   streak, streamVars, boVars, idVars,
                   peerVars, dialVars, spireVars>>

\* An append that also publishes the slice as it is.
AppendEndpointShared(s) ==
    /\ wpc[s] = "build"
    /\ Len(building[s]) < Len(Decoded(rx[s].resp))
    /\ building' = [building EXCEPT
                        ![s] = Append(@, Decoded(rx[s].resp)[Len(@) + 1])]
    /\ endpoints' = Store(endpoints, s, building'[s])
    /\ UNCHANGED <<watching, onceDone, nodeID, callerVars, nStarted, cancelled, wpc,
                   backoff, delay, ret, req, resetBackoff, streak, streamVars,
                   boVars, idVars,
                   peerVars, dialVars, spireVars>>

\* endpoints = append(endpoints, Endpoint{...}) in claToEndpoints.
AppendEndpoint(s) ==
    /\ wpc[s] = "build"
    /\ Len(building[s]) < Len(Decoded(rx[s].resp))
    /\ building' = [building EXCEPT
                        ![s] = Append(@, Decoded(rx[s].resp)[Len(@) + 1])]
    /\ UNCHANGED <<clientVars, callerVars, nStarted, cancelled, wpc, backoff, delay,
                   ret, req, resetBackoff, streak, streamVars, boVars, idVars,
                   peerVars, dialVars, spireVars>>

\* c.endpoints.Store(serviceName, endpoints), and back to the Send.
StoreBuilt(s) ==
    /\ wpc[s] = "build"
    /\ building[s] = Decoded(rx[s].resp)
    /\ endpoints' = Store(endpoints, s, building[s])
    /\ accepted' = [accepted EXCEPT ![s] = <<rx[s].resp>>]
    /\ rx' = [rx EXCEPT ![s] = Nothing]
    /\ outstanding' = [outstanding EXCEPT ![s] = @ - 1]
    /\ building' = [building EXCEPT ![s] = <<>>]
    /\ wpc' = [wpc EXCEPT ![s] = "send"]
    /\ UNCHANGED <<watching, onceDone, nodeID, callerVars, nStarted, cancelled, backoff,
                   delay, ret, req, resetBackoff, streak, srv, srvReq, boVars, idVars,
                   peerVars, dialVars, spireVars>>

\* The responses of the server: one endpoint, then three.
BuildResponses ==
    { Response(<<"v1", "n1">>, <<ClaOne>>), Response(<<"v2", "n2">>, ManyPayloads) }

NextBuild ==
    \/ \E c \in Callers, s \in Services : Call(c, s)
    \/ \E c \in Callers : CallerStep(c)
    \/ \E s \in Services : Connect(s) \/ Send(s)
    \/ \E s \in Services : RecvDecode(s) \/ AppendEndpoint(s) \/ StoreBuilt(s)
    \/ \E s \in Services, r \in BuildResponses : ServerRespond(s, r)

SpecBuild == Init /\ [][NextBuild]_vars

(***************************************************************************)
(* Several concurrent callers of GetEndpoints on a client whose server     *)
(* answers every request.                                                  *)
(***************************************************************************)
NextDedup ==
    \/ \E c \in Callers, s \in Services : Call(c, s)
    \/ \E c \in Callers : CallerStep(c)
    \/ \E s \in Services : Connect(s) \/ Send(s) \/ RecvResponse(s)
    \/ \E s \in Services, r \in FewResponses : ServerRespond(s, r)

SpecDedup == Init /\ [][NextDedup]_vars

(***************************************************************************)
(* One client with any configured node identity, asked for two services:   *)
(* two watch tasks, each with its own stream.  The server answers or ends  *)
(* the stream, and an ended stream is opened again.                        *)
(***************************************************************************)
InitServices2 ==
    /\ InitServices(TwoServices)
    /\ InitExtUnused
    /\ nodeID \in NodeIDs
    /\ InitBackoffUnused
    /\ InitIDUnused

NextServices ==
    \/ \E c \in OneCaller, s \in TwoServices : Call(c, s)
    \/ \E c \in OneCaller : CallerStep(c)
    \/ \E s \in TwoServices : Connect(s) \/ Send(s) \/ RecvResponse(s)
    \/ \E s \in TwoServices : RecvEOF(s) \/ Wake(s)
    \/ \E s \in TwoServices, r \in FewResponses : ServerRespond(s, r)
    \/ \E s \in TwoServices : ServerClose(s)

SpecServices == InitServices2 /\ [][NextServices]_vars

(***************************************************************************)
(* One client asked for two services whose server answers, ends the stream *)
(* or cannot be reached: two watch tasks, each with its own stream and its *)
(* own Backoff.                                                            *)
(***************************************************************************)
InitIsolation ==
    /\ InitServices(TwoServices)
    /\ InitExtUnused
    /\ nodeID = NodeID
    /\ InitBackoffUnused
    /\ InitIDUnused

NextIsolation ==
    \/ \E c \in OneCaller, s \in TwoServices : Call(c, s)
    \/ \E c \in OneCaller : CallerStep(c)
    \/ \E s \in TwoServices : Connect(s) \/ ConnectFail(s) \/ Send(s) \/ RecvResponse(s)
    \/ \E s \in TwoServices : RecvEOF(s) \/ Wake(s)
    \/ \E s \in TwoServices, r \in FewResponses : ServerRespond(s, r)
    \/ \E s \in TwoServices : ServerClose(s)

SpecIsolation == InitIsolation /\ [][NextIsolation]_vars

(***************************************************************************)
(* One Backoff object, any sequence of Duration and Reset calls.           *)
(***************************************************************************)
\* (InitialDelay, MaxDelay) of the Backoff under test: the defaults, the
\* backoff test's 1s and 5s, equal delays, and an initial delay above the
\* maximum (the options check nothing).
BackoffConfigs ==
    { <<DefaultInitialDelay, DefaultMaxDelay>>,
      <<Second, Times(5, Second)>>,
      <<Times(5, Second), Times(5, Second)>>,
      <<Times(10, Second), Times(5, Second)>> }

InitBackoff ==
    /\ InitClient
    /\ \E cfg \in BackoffConfigs : bo = NewBackoff(cfg[1], cfg[2])
    /\ boLast = {}
    /\ boCalls = 0
    /\ boBefore = -1
    /\ InitIDUnused

\* b.Duration()
BoDuration ==
    /\ boCalls < MaxCalls
    /\ boLast' = Delay(bo)
    /\ bo' = Advance(bo)
    /\ boCalls' = boCalls + 1
    /\ UNCHANGED <<boBefore, clientVars, callerVars, watchVars, streamVars, idVars,
                   peerVars, dialVars, spireVars>>

\* b.Reset()
BoReset ==
    /\ bo' = Reset(bo)
    /\ boCalls' = 0
    /\ boBefore' = boCalls
    /\ UNCHANGED <<boLast, clientVars, callerVars, watchVars, streamVars, idVars,
                   peerVars, dialVars, spireVars>>

NextBackoff == BoDuration \/ BoReset

SpecBackoff == InitBackoff /\ [][NextBackoff]_vars

(***************************************************************************)
(* ParseID on any ID string.                                               *)
(***************************************************************************)
InitParse ==
    /\ InitClient /\ InitBackoffUnused
    /\ idStr \in IDStrings
    /\ idRet = NotParsed
    /\ InitMatchUnused

\* ParseID(idStr)
ParseIDCall ==
    /\ idRet' = ParseID(idStr)
    /\ UNCHANGED <<idStr, mID, mKV, mFuncs, mErr, mRes, newIDVars,
                   clientVars, callerVars, watchVars, streamVars, boVars,
                   peerVars, dialVars, spireVars>>

NextParse == ParseIDCall

SpecParse == InitParse /\ [][NextParse]_vars

(***************************************************************************)
(* Matches on a parsed ID, and MatchFuncs called on any map.               *)
(***************************************************************************)
InitMatch ==
    /\ InitClient /\ InitBackoffUnused
    /\ idStr = IDString("", "", <<>>)
    /\ idRet = NotParsed
    /\ \/ mID \in SampleIDs /\ mKV = <<>>
       \/ mID = <<>> /\ mKV \in { <<kv>> : kv \in KVMaps }
    /\ mFuncs = <<>>
    /\ mErr = NotCalled
    /\ mRes = <<>>
    /\ InitNewIDUnused

\* Each run makes one call on its input.
NoCallYet == mErr = NotCalled /\ mRes = <<>>

\* mID.Matches(funcs...)
MatchesCall(funcs) ==
    /\ NoCallYet
    /\ mID # <<>>
    /\ mFuncs' = funcs
    /\ mErr' = Matches(mID[1], funcs)
    /\ UNCHANGED <<idStr, idRet, mID, mKV, mRes, newIDVars,
                   clientVars, callerVars, watchVars, streamVars, boVars,
                   peerVars, dialVars, spireVars>>

\* f(kv) for each f of funcs, on the same map.
ApplyCall(funcs) ==
    /\ NoCallYet
    /\ mKV # <<>>
    /\ mFuncs' = funcs
    /\ mRes' = [i \in DOMAIN funcs |-> Apply(funcs[i], mKV[1])]
    /\ UNCHANGED <<idStr, idRet, mID, mKV, mErr, newIDVars,
                   clientVars, callerVars, watchVars, streamVars, boVars,
                   peerVars, dialVars, spireVars>>

NextMatch ==
    \/ \E funcs \in FuncLists : MatchesCall(funcs)
    \/ \E funcs \in FuncLists : ApplyCall(funcs)

SpecMatch == InitMatch /\ [][NextMatch]_vars

(***************************************************************************)
(* What the claims speak of                                                *)
(***************************************************************************)
Svc == "svc"

\* The endpoints the tests expect from the sample resources.
EpA == [Host |-> "1.2.3.4", Port |-> 4321, Weight |-> 42]

EpB == [Host |-> "1.2.3.5", Port |-> 4322, Weight |-> 43]

EpZero == [Host |-> "", Port |-> 0, Weight |-> 0]

\* A response the session accepts: no resources, or a first resource that
\* decodes.
Decodable(r) == r.Resources = <<>> \/ r.Resources[1].decodes

FirstPayloadMalformed(r) == r.Resources # <<>> /\ ~ r.Resources[1].decodes

\* The endpoint list a decodable response carries, written out.
ExpectedList(r) ==
    IF r.Resources = <<>> THEN <<>>
    ELSE CASE r.Resources[1] = ClaNone -> <<>>
           [] r.Resources[1] = ClaEmptyGroup -> <<>>
           [] r.Resources[1] = ClaOne -> <<EpA>>
           [] r.Resources[1] = ClaMany -> <<EpA, EpB, EpZero>>

\* A response that says the service has no instance: zero resources, or one
\* resource whose endpoint groups are empty.
NoInstances(r) ==
    \/ r.Resources = <<>>
    \/ /\ Len(r.Resources) = 1
       /\ r.Resources[1].decodes
       /\ \A i \in DOMAIN r.Resources[1].Endpoints : r.Resources[1].Endpoints[i] = <<>>

\* The endpoint lists of the sample responses.
SampleLists == { <<>>, <<EpA>>, <<EpA, EpB, EpZero>> }

\* The stream of s holds a decodable response that carries the list L.
Carries(s, L) ==
    rx[s].kind = "resp" /\ Decodable(rx[s].resp) /\ ExpectedList(rx[s].resp) = L

InSession(s) == wpc[s] \in {"connect", "send", "recv"}

\* The session of s takes the response waiting in its stream.
TakesResponse(s) == wpc[s] = "recv" /\ rx[s].kind = "resp" /\ wpc'[s] = "send"

\* The connection attempt of s ends (FAILED or STREAM_ENDED).
AttemptEnds(s) == InSession(s) /\ ~ InSession(s)'

\* The last attempt of s ended with an error and without any response.
FailedWithoutResponse(s) == ~ ret[s].reset /\ ret[s].err \notin {"running", "EOF"}

\* Caller c is inside GetEndpoints.
InCall(c) == cpc[c] \notin {"idle", "done"}

\* InitialDelay * 2^n in the integers: no bit is lost.
ShlExact(d, n) == {b + n : b \in d}

\* min(InitialDelay * 2^n, MaxDelay) in the integers.
MinDelay(initial, max, n) ==
    IF MagLess(max, ShlExact(initial, n)) THEN max ELSE ShlExact(initial, n)

(***************************************************************************)
(* C1: GetEndpoints(s) returns the "endpoints not yet discovered for s"    *)
(* error exactly when the cache held no entry for s when the call was      *)
(* made; with an entry, even an empty list, it returns that entry and no   *)
(* error; it returns no other error.                                       *)
(***************************************************************************)
C1_ErrorIffNoEntry ==
    \A c \in Callers :
        cpc[c] = "done" =>
            /\ cres[c].err \in {"", NotYetDiscovered(csvc[c])}
            /\ (cres[c].err = NotYetDiscovered(csvc[c])) <=> ~ cseen[c].found
            /\ cseen[c].found => cres[c] = Result(cseen[c].eps, "")

\* A call made when the cache held the empty list has returned it.
C1_Witness ==
    /\ cpc[1] = "done" /\ cseen[1] = Present(<<>>) /\ cres[1] = Result(<<>>, "")
    /\ nStarted[Svc] = 1

(***************************************************************************)
(* C2: whatever the interleaving of concurrent GetEndpoints calls for one  *)
(* service, at most one watch task is ever started for it, and exactly one *)
(* has been started once a call has returned the not-yet-discovered error. *)
(***************************************************************************)
C2_OneWatchPerService ==
    \A s \in Services :
        /\ nStarted[s] <= 1
        /\ (\E c \in Callers : cpc[c] = "done" /\ csvc[c] = s /\ cres[c].err # "")
               => nStarted[s] = 1

\* Two callers have both missed the cache and both been through Once.Do.
C2_Witness ==
    /\ cpc[1] = "return" /\ cpc[2] = "return"
    /\ csvc[1] = Svc /\ csvc[2] = Svc
    /\ nStarted[Svc] = 1

(***************************************************************************)
(* C3: GetEndpoints never waits for discovery: whatever the watch task and *)
(* the server are doing, a caller inside GetEndpoints can take its next    *)
(* step, and a caller outside it can make a call.                          *)
(***************************************************************************)
C3_CallerNeverBlocked ==
    \A c \in OneCaller :
        /\ InCall(c) => ENABLED CallerStep(c)
        /\ ~ InCall(c) => \A s \in Services : ENABLED Call(c, s)

\* A caller is inside GetEndpoints while the watch task is blocked in Recv.
C3_Witness == cpc[1] = "do" /\ wpc[Svc] = "recv" /\ rx[Svc] = Nothing

(***************************************************************************)
(* C4: once a decodable response carrying the endpoint list L is in the    *)
(* stream of the started watch of a service, the cache entry of the        *)
(* service becomes exactly L (host, port and weight of every endpoint, in  *)
(* response order), and a GetEndpoints call made on that entry returns L   *)
(* with no error.                                                          *)
(***************************************************************************)
C4_ResponseIsCached ==
    /\ \A L \in SampleLists :
           Carries(Svc, L) ~> (endpoints[Svc] = Present(L))
    /\ [](\A c \in Callers :
              (cpc[c] = "done" /\ cseen[c].found) => cres[c] = Result(cseen[c].eps, ""))

\* The caller has got the three endpoints of the largest sample response.
C4_Witness ==
    /\ accepted[Svc] # <<>> /\ accepted[Svc][1].Resources = ManyPayloads
    /\ cpc[1] = "done" /\ cres[1] = Result(<<EpA, EpB, EpZero>>, "")

(***************************************************************************)
(* C5: when the cache entry of a service is a non-empty list and its       *)
(* session takes a response with zero resources, or with one resource      *)
(* whose endpoint groups are empty, the entry becomes the empty list; a    *)
(* GetEndpoints call made on the empty entry returns the empty list and no *)
(* error.                                                                  *)
(***************************************************************************)
C5_RemovalEmptiesEntry ==
    /\ [][\A s \in Services :
              (/\ TakesResponse(s)
               /\ NoInstances(rx[s].resp)
               /\ endpoints[s].found /\ endpoints[s].eps # <<>>)
              => endpoints'[s] = Present(<<>>)]_vars
    /\ [](\A c \in Callers :
              (cpc[c] = "done" /\ cseen[c] = Present(<<>>)) => cres[c] = Result(<<>>, ""))

\* The caller had got a non-empty list; a response with zero resources has
\* been stored since.
C5_Witness ==
    /\ cpc[1] = "done" /\ cres[1].err = "" /\ cres[1].eps # <<>>
    /\ accepted[Svc] # <<>> /\ accepted[Svc][1].Resources = <<>>
    /\ endpoints[Svc] = Present(<<>>)

(***************************************************************************)
(* C6: when the first payload of the response a session takes fails to     *)
(* decode, the cache entry of the service is what it was before: the same  *)
(* list if there was one, still absent if there was none.                  *)
(***************************************************************************)
C6_MalformedLeavesEntry ==
    [][\A s \in Services :
           (TakesResponse(s) /\ FirstPayloadMalformed(rx[s].resp))
           => endpoints'[s] = endpoints[s]]_vars

\* A malformed response (version v2) was taken after the response (v1)
\* whose non-empty list is still in the cache.
C6_Witness ==
    /\ wpc[Svc] = "send" /\ req[Svc].VersionInfo = "v2"
    /\ accepted[Svc] # <<>> /\ accepted[Svc][1].VersionInfo = "v1"
    /\ endpoints[Svc].found /\ endpoints[Svc].eps # <<>>

(***************************************************************************)
(* C7: after a connection attempt that failed with a stream, send or       *)
(* receive error before any response, the watch task sleeps for its        *)
(* backoff delay (200ms after a first failure) and then starts a new       *)
(* attempt, and a decodable response carrying the list L that the server   *)
(* then sends ends up as the cache entry L.                                *)
(***************************************************************************)
C7_RecoversAfterFailure ==
    /\ (FailedWithoutResponse(Svc) /\ ~ InSession(Svc)) ~> (wpc[Svc] = "connect")
    /\ []((FailedWithoutResponse(Svc) /\ wpc[Svc] = "sleep" /\ backoff[Svc].n = 1)
              => delay[Svc] = Times(200, Millisecond))
    /\ \A L \in SampleLists :
           (FailedWithoutResponse(Svc) /\ Carries(Svc, L)) ~> (endpoints[Svc] = Present(L))

\* The first attempt failed, and the list of a later session is in the cache.
C7_Witness ==
    /\ FailedWithoutResponse(Svc)
    /\ wpc[Svc] = "send" /\ req[Svc].VersionInfo # ""
    /\ endpoints[Svc] = Present(<<EpA>>)
    /\ cres[1] = Result(<<EpA>>, "")

(***************************************************************************)
(* C8: the end of a connection attempt (a failure to open the stream, a    *)
(* send failure, a receive failure or a clean end of stream) changes no    *)
(* cache entry: a discovered service keeps the list of its last accepted   *)
(* response and an undiscovered one stays undiscovered.                    *)
(***************************************************************************)
C8_LastKnownGood ==
    [][\A s \in Services : AttemptEnds(s) => endpoints' = endpoints]_vars

\* A session that had stored a list has ended on a send failure, and the
\* list is still there.
C8_Witness ==
    /\ wpc[Svc] = "sleep"
    /\ ret[Svc] = Returned(TRUE, "failed to send xDS discovery request")
    /\ endpoints[Svc] = Present(<<EpA>>)

(***************************************************************************)
(* C9: the cache entry of a service is absent while no response has been   *)
(* accepted, and otherwise is exactly the list of the most recently        *)
(* accepted response of its watch: each accepted response replaces the     *)
(* entry, nothing of an older list is left in it.                          *)
(***************************************************************************)
C9_EntryIsLastAccepted ==
    \A s \in Services :
        IF accepted[s] = <<>> THEN endpoints[s] = Absent
        ELSE endpoints[s] = Present(ExpectedList(accepted[s][1]))

\* A second accepted response (v2) has replaced the three endpoints of an
\* earlier one by its single endpoint.
C9_Witness ==
    /\ accepted[Svc] # <<>> /\ accepted[Svc][1].VersionInfo = "v2"
    /\ endpoints[Svc] = Present(<<EpA>>)
    /\ cres[1] = Result(<<EpA, EpB, EpZero>>, "")

(***************************************************************************)
(* C10: on a Backoff with InitialDelay <= MaxDelay, the n-th Duration call *)
(* since construction or since the last Reset (n from 0) returns           *)
(* min(InitialDelay * 2^n, MaxDelay).                                      *)
(***************************************************************************)
C10_DurationIsCappedDoubling ==
    (boCalls > 0 /\ ~ Greater(bo.InitialDelay, bo.MaxDelay))
        => boLast = MinDelay(bo.InitialDelay, bo.MaxDelay, boCalls - 1)

\* InitialDelay * 2^n does not fit the 63 value bits of a time.Duration:
\* the shift wraps to a negative value, to zero or to a smaller positive one.
Overflowed(initial, n) == \E b \in ShlExact(initial, n) : b >= Width - 1

\* The step is a Duration call on the Backoff under test.
IsDurationCall == boCalls' = boCalls + 1

\* The step is a Reset call on the Backoff under test.
IsResetCall == boCalls' = 0 /\ boBefore' = boCalls

(***************************************************************************)
(* C11: a Duration call whose shift InitialDelay << n overflows the 64-bit *)
(* duration returns MaxDelay, whatever the shift wraps to (a negative      *)
(* value, zero or a small positive value).                                 *)
(***************************************************************************)
C11_OverflowSaturates ==
    (boCalls > 0 /\ Overflowed(bo.InitialDelay, boCalls - 1))
        => boLast = bo.MaxDelay

(***************************************************************************)
(* C12: a Duration call never returns more than MaxDelay, and, when it is  *)
(* not the first call since construction or since the last Reset, never    *)
(* less than the call before it returned.                                  *)
(***************************************************************************)
C12_MonotoneUpToMax ==
    [][IsDurationCall =>
           /\ ~ Negative(boLast') /\ ~ Greater(boLast', bo.MaxDelay)
           /\ boCalls > 0 => ~ Greater(boLast, boLast')]_vars

(***************************************************************************)
(* C13: Reset leaves InitialDelay and MaxDelay as they are and sets the    *)
(* counter to 0, whatever number of Duration calls came before it: the     *)
(* counter is then the number of calls since the Reset, and the first      *)
(* Duration call after it returns InitialDelay, or MaxDelay when           *)
(* InitialDelay is above it.                                               *)
(***************************************************************************)
C13_ResetRestarts ==
    /\ [][IsResetCall =>
              bo' = NewBackoff(bo.InitialDelay, bo.MaxDelay)]_vars
    /\ [](boBefore >= 0 =>
              /\ bo.n = boCalls
              /\ boCalls = 1 => boLast = MinDelay(bo.InitialDelay, bo.MaxDelay, 0))

\* A Reset came after 56 Duration calls (the last of them past the
\* overflow), and the call after it has returned the initial 200ms.
C13_Witness ==
    /\ boBefore = 56 /\ boCalls = 1
    /\ bo.InitialDelay = DefaultInitialDelay
    /\ boLast = Times(200, Millisecond)

(***************************************************************************)
(* C14: every Discovery Request the watch of a service s has sent, in any  *)
(* session and at any iteration, carries the node identity the client was  *)
(* configured with, the endpoint resource type, and the single resource    *)
(* name s followed by "_cluster"; so does the request the session holds    *)
(* for its next send.                                                      *)
(***************************************************************************)
C14_RequestIdentifiesService ==
    \A s \in DOMAIN srvReq :
        \A r \in {srvReq[s], req[s]} :
            r # NoRequest =>
                /\ r.Node = nodeID
                /\ r.TypeUrl = "type.googleapis.com/envoy.config.endpoint.v3.ClusterLoadAssignment"
                /\ r.ResourceNames = <<s \o "_cluster">>

\* A client configured as node-2 watches two services: the watch of svc has
\* sent the first request of its second session, the watch of web a later
\* request of its first.
C14_Witness ==
    /\ nodeID = "node-2"
    /\ ret["svc"].err = "EOF" /\ wpc["svc"] = "recv"
    /\ srvReq["svc"].ResourceNames = <<"svc_cluster">> /\ srvReq["svc"].VersionInfo = ""
    /\ ret["web"] = NotReturned /\ wpc["web"] = "recv"
    /\ srvReq["web"].ResourceNames = <<"web_cluster">> /\ srvReq["web"].VersionInfo = "v1"

\* The map of each sample ID, written out: a later pair of the path
\* replaces an earlier one with the same key.
ExpectedKV(id) ==
    CASE id.path = <<"/", "a", "/", "b">> -> (KeyA :> KeyB)
      [] id.path = <<"/", "a", "/", "b", "/", "b", "/", "a">> -> (KeyA :> KeyB) @@ (KeyB :> KeyA)
      [] id.path = <<"/", "a", "/", "a", "/", "a", "/", "b">> -> (KeyA :> KeyB)
      [] id.path = <<"/", "a", "b", "/", "b">> -> (<<"a", "b">> :> KeyB)

\* The functions of the last call that fail on kv, by position.
Failing(kv) == { i \in DOMAIN mFuncs : Apply(mFuncs[i], kv) # NilError }

Least(S) == CHOOSE i \in S : \A j \in S : i <= j

(***************************************************************************)
(* C15: on an ID whose path parses, Matches(f1..fk) returns nil exactly    *)
(* when every fi returns nil on the map of the path (so always for k = 0), *)
(* and otherwise returns the error of the first fi, in argument order,     *)
(* that fails.                                                             *)
(***************************************************************************)
C15_MatchesIsConjunction ==
    (mID # <<>> /\ mErr # NotCalled) =>
        LET kv == ExpectedKV(mID[1])
        IN  /\ mErr = NilError <=> Failing(kv) = {}
            /\ Failing(kv) # {} => mErr = Apply(mFuncs[Least(Failing(kv))], kv)

\* Matches was called on /a/b with two functions that both fail, and has
\* returned the error of the first.
C15_Witness ==
    /\ mID # <<>> /\ mID[1].path = <<"/", "a", "/", "b">>
    /\ mFuncs = <<IsEmpty(KeyA), IsNotEmpty(KeyB)>>
    /\ mErr = Errorf("key %s is not empty", <<KeyA>>)

(***************************************************************************)
(* C16: on any map, Or(f1..fk) returns nil exactly when at least one fi    *)
(* returns nil on it, so Or of no function fails; Not(f) returns nil       *)
(* exactly when f returns an error on it.                                  *)
(***************************************************************************)
C16_OrAndNot ==
    \A i \in DOMAIN mRes :
        LET f == mFuncs[i]
            kv == mKV[1]
        IN  /\ f.op = "Or" =>
                   /\ mRes[i] = NilError <=>
                          \E j \in DOMAIN f.funcs : Apply(f.funcs[j], kv) = NilError
                   /\ f.funcs = <<>> => mRes[i] # NilError
            /\ f.op = "Not" =>
                   (mRes[i] = NilError <=> Apply(f.funcs[1], kv) # NilError)

\* On the map {b: a}, an Or whose second function alone passes has passed,
\* and the Or of no function has failed.
C16_Witness ==
    /\ mKV = << (KeyB :> KeyA) >>
    /\ mFuncs = <<Or(<<Equals(KeyA, KeyA), Equals(KeyB, KeyA)>>), Or(<<>>)>>
    /\ mRes = <<NilError, Errorf("none of the tests passed", <<>>)>>

WellFormed(str) ==
    /\ str.scheme = "spiffe" /\ str.td # ""
    /\ str.path # <<>> =>
           /\ str.path[Len(str.path)] # "/"
           /\ \A i \in 1 .. Len(str.path) - 1 : ~ (str.path[i] = "/" /\ str.path[i + 1] = "/")

\* The number of segments of a well-formed path: one for each slash.
NumSegments(path) == Cardinality({ i \in DOMAIN path : path[i] = "/" })

OpensSession(s) == wpc[s] = "connect" /\ wpc'[s] = "send"

\* The step sends the request of the session of s.
SendsRequest(s) == wpc[s] = "send" /\ wpc'[s] = "recv"

\* The version_info and response_nonce of a request, and the version_info
\* and nonce of a response.
Ack(r) == <<r.VersionInfo, r.ResponseNonce>>

StampOf(resp) == <<resp.VersionInfo, resp.Nonce>>

\* A session starts with an empty acknowledgement, the request that is sent
\* is the one the session holds, and only taking a response changes it.
AckFrame(s) ==
    /\ OpensSession(s) => Ack(req'[s]) = <<"", "">>
    /\ SendsRequest(s) => srvReq'[s] = req[s]
    /\ ~ (OpensSession(s) \/ TakesResponse(s)) => req'[s] = req[s]

(***************************************************************************)
(* C19: the first request of every session, also of a session after a      *)
(* reconnect, has empty version_info and response_nonce, and a later       *)
(* request carries those of the last response of the same session that was *)
(* accepted (no resources, or a first payload that decodes): a response    *)
(* whose payload fails to decode leaves them as they were.                 *)
(***************************************************************************)
C19_AckOfLastAccepted ==
    [][\A s \in Services :
           /\ AckFrame(s)
           /\ TakesResponse(s) =>
                  Ack(req'[s]) = IF Decodable(rx[s].resp) THEN StampOf(rx[s].resp)
                                 ELSE Ack(req[s])]_vars

\* What the session does: the first request of every session has an empty
\* acknowledgement, and a later one acknowledges the last response the
\* session received, whether or not its payload decoded.
AckOfLastReceived ==
    [][\A s \in Services :
           /\ AckFrame(s)
           /\ TakesResponse(s) => Ack(req'[s]) = StampOf(rx[s].resp)]_vars

\* A second session, opened after the first had stored the response v1, has
\* received a response v2 whose payload did not decode, and has sent its
\* next request with v2 and n2.
C19_Witness ==
    /\ ret[Svc].err # "running" /\ wpc[Svc] = "recv"
    /\ accepted[Svc] # <<>> /\ accepted[Svc][1].VersionInfo = "v1"
    /\ endpoints[Svc] = Present(<<EpA>>)
    /\ Ack(srvReq[Svc]) = <<"v2", "n2">>

(***************************************************************************)
(* C20: on the stream of a session there is never more than one request    *)
(* that has been sent and not answered: none when the session is about to  *)
(* send, exactly one while it waits in its receive, and a request is sent  *)
(* only when none is outstanding.                                          *)
(***************************************************************************)
C20_OneRequestOutstanding ==
    \A s \in Services :
        /\ outstanding[s] \in {0, 1}
        /\ wpc[s] = "send" => outstanding[s] = 0
        /\ wpc[s] = "recv" => outstanding[s] = 1

\* The session has taken two responses and waits for the answer to its
\* third request.
C20_Witness ==
    /\ wpc[Svc] = "recv" /\ outstanding[Svc] = 1 /\ ret[Svc] = NotReturned
    /\ req[Svc].VersionInfo = "v2"
    /\ accepted[Svc] # <<>> /\ accepted[Svc][1].VersionInfo = "v1"

\* The session of s has received a response (its request acknowledges one).
GotResponse(s) == wpc[s] \in {"send", "recv"} /\ Ack(req[s]) # <<"", "">>

\* The receive of s is about to report a clean end of stream.
AtCleanEnd(s) == wpc[s] = "recv" /\ rx[s].kind = "eof"

C22_BackoffAccumulates ==
    \A s \in Services :
        (wpc[s] = "sleep" /\ streak[s].fails >= 1)
            => /\ backoff[s].n = streak[s].fails
               /\ delay[s] = MinDelay(DefaultInitialDelay, DefaultMaxDelay,
                                      streak[s].fails - 1)

(***************************************************************************)
(* C23: for any number of failed connection attempts in a row, the delay   *)
(* the supervisor waits between the end of one attempt and the start of    *)
(* the next is at least InitialDelay and at most MaxDelay; it is never     *)
(* zero.                                                                   *)
(***************************************************************************)
C23_NoHotLoop ==
    \A s \in Services :
        wpc[s] = "sleep"
            => /\ delay[s] # {}
               /\ ~ Negative(delay[s])
               /\ ~ MagLess(delay[s], DefaultInitialDelay)
               /\ ~ MagLess(DefaultMaxDelay, delay[s])

\* The server was unreachable for 56 attempts in a row, counted from the
\* first attempt of the task, and the task sleeps for a delay of zero.
C23_Witness ==
    /\ wpc[Svc] = "sleep"
    /\ streak[Svc].fails = 56 /\ backoff[Svc].n = 56
    /\ delay[Svc] = {}
    /\ endpoints[Svc] = Absent

\* if err != nil: the supervisor logs "xDS watch failed, retrying" for what
\* the last attempt of s returned.
WatchFailedLogged(s) == ret[s].err \notin {"", "running"}

(***************************************************************************)
(* C24: when the receive reports a clean end of stream, the session ends   *)
(* and reports no error to the supervising loop (the end is not logged as  *)
(* a watch failure); every other receive failure is reported as an error.  *)
(***************************************************************************)
C24_CleanEndIsNoError ==
    [][\A s \in Services :
           (AttemptEnds(s) /\ wpc[s] = "recv")
               => /\ rx[s].kind = "eof" => ret'[s].err = "" /\ ~ WatchFailedLogged(s)'
                  /\ rx[s].kind = "err" => WatchFailedLogged(s)']_vars

\* The server closed the stream after a stored response, and the supervisor
\* has the error io.EOF in hand.
C24_Witness ==
    /\ wpc[Svc] = "sleep"
    /\ ret[Svc] = Returned(TRUE, "EOF")
    /\ WatchFailedLogged(Svc)
    /\ endpoints[Svc] = Present(<<EpA>>)

\* The watch task of s has been started and is in its loop.
TaskRuns(s) == wpc[s] \in {"connect", "send", "recv", "sleep"}

(***************************************************************************)
(* C25: with no cancellation signalled, every end of a connection attempt  *)
(* (a failure or an ended stream, any number of times in a row) is         *)
(* eventually followed by a new attempt that starts by connecting; the     *)
(* watch task of a started service never exits on its own.                 *)
(***************************************************************************)
C25_NeverGivesUp ==
    \A s \in Services :
        /\ (wpc[s] = "sleep") ~> (wpc[s] = "connect")
        /\ [](nStarted[s] > 0 => TaskRuns(s))

\* Three attempts failed in a row and the fourth has sent its request.
C25_Witness ==
    /\ wpc[Svc] = "recv"
    /\ streak[Svc].fails = 3
    /\ Ack(srvReq[Svc]) = <<"", "">>

(***************************************************************************)
(* C26: once the cancellation signal of a watch task is raised, the task   *)
(* eventually exits from whatever state it is in (connecting, sending,     *)
(* blocked in its receive, sleeping in its backoff), and from then on the  *)
(* cache entry of its service is never removed, and is changed only to the *)
(* list of an accepted response; after the exit it does not change.        *)
(***************************************************************************)
C26_CancelTerminates ==
    /\ \A s \in Services : cancelled[s] ~> (wpc[s] = "exited")
    /\ [][\A s \in Services :
               wpc[s] = "exited" => (wpc'[s] = "exited" /\ endpoints'[s] = endpoints[s])]_vars
    /\ [][\A s \in Services :
               (cancelled[s] /\ endpoints'[s] # endpoints[s])
                   => /\ TakesResponse(s) /\ Decodable(rx[s].resp)
                      /\ endpoints'[s] = Present(ExpectedList(rx[s].resp))]_vars

\* The task was cancelled while blocked in its receive, after it had stored
\* a list; it has exited and the list is still in the cache.
C26_Witness ==
    /\ cancelled[Svc] /\ wpc[Svc] = "exited"
    /\ ret[Svc].err = "failed to receive xDS discovery response"
    /\ endpoints[Svc] = Present(<<EpA>>)
    /\ cres[1] = Result(<<EpA>>, "")

\* The task of s calls StreamAggregatedResources or stream.Send in this step.
OpensOrSends(s) == wpc[s] \in {"connect", "send"} /\ wpc'[s] # wpc[s]

(***************************************************************************)
(* C27: in every state where the cancellation signal is already raised,    *)
(* the watch task makes no further attempt to open a stream and sends no   *)
(* further request: it observes the signal first and exits.                *)
(***************************************************************************)
C27_CancelCheckedFirst ==
    [][\A s \in Services : cancelled[s] => ~ OpensOrSends(s)]_vars

\* The task was cancelled before it opened its stream, has opened it all the
\* same, and is about to send its request.
C27_Witness ==
    /\ cancelled[Svc] /\ wpc[Svc] = "send"
    /\ ret[Svc] = NotReturned
    /\ srv[Svc] = "recv" /\ srvReq[Svc] = NoRequest

\* The receive of s returns a response whose first payload does not decode.
TakesUndecodable(s) ==
    /\ wpc[s] = "recv" /\ rx[s].kind = "resp" /\ FirstPayloadMalformed(rx[s].resp)
    /\ wpc'[s] # "recv"

\* The last response the session of s received was not stored: its payload
\* did not decode.
AfterSkip(s) ==
    /\ GotResponse(s)
    /\ accepted[s] = <<>> \/ StampOf(accepted[s][1]) # Ack(req[s])

(***************************************************************************)
(* C28: a response whose payload fails to decode does not end the session: *)
(* the session stays on the same stream and sends its next request (the    *)
(* attempt does not end, nothing reconnects, no backoff delay is taken),   *)
(* and a later decodable response on that stream updates the cache as      *)
(* usual.                                                                  *)
(***************************************************************************)
C28_DecodeFailureKeepsSession ==
    /\ [][\A s \in Services :
              TakesUndecodable(s)
                  => /\ wpc'[s] = "send"
                     /\ srv'[s] = srv[s] /\ srv[s] \in {"recv", "pending", "done"}
                     /\ <<backoff[s], delay[s], ret[s], streak[s]>>'
                            = <<backoff[s], delay[s], ret[s], streak[s]>>]_vars
    /\ [](\A s \in Services : (AfterSkip(s) /\ wpc[s] = "send") => ENABLED Send(s))
    /\ [][\A s \in Services :
              (AfterSkip(s) /\ TakesResponse(s) /\ Decodable(rx[s].resp))
                  => endpoints'[s] = Present(ExpectedList(rx[s].resp))]_vars

\* The session took the response v1, whose payload did not decode, stored
\* nothing, sent its next request on the same stream with v1 and n1, and the
\* decodable response v2 is now in the stream.
C28_Witness ==
    /\ ret[Svc] = NotReturned /\ wpc[Svc] = "recv" /\ AfterSkip(Svc)
    /\ Ack(srvReq[Svc]) = <<"v1", "n1">>
    /\ accepted[Svc] = <<>> /\ endpoints[Svc] = Absent
    /\ Carries(Svc, <<EpA>>) /\ StampOf(rx[Svc].resp) = <<"v2", "n2">>

\* The response r without its additional payloads.
FirstOnly(r) == [r EXCEPT !.Resources = <<r.Resources[1]>>]

(***************************************************************************)
(* C29: for a response with one or more resources, the list written to the *)
(* cache is the decoding of the first resource alone: additional resources *)
(* contribute no endpoint, and a decode failure in one of them does not    *)
(* prevent the update.                                                     *)
(***************************************************************************)
C29_FirstPayloadOnly ==
    [][\A s \in Services :
           (TakesResponse(s) /\ Len(rx[s].resp.Resources) >= 1
                             /\ rx[s].resp.Resources[1].decodes)
               => /\ endpoints'[s] = Present(ExpectedList(FirstOnly(rx[s].resp)))
                  /\ accepted'[s] = <<rx[s].resp>>]_vars

\* The response v2 had three payloads: three endpoints, one that does not
\* decode, and one more endpoint.  The cache holds the three of the first.
C29_Witness ==
    /\ wpc[Svc] = "send" /\ Ack(req[Svc]) = <<"v2", "n2">>
    /\ accepted[Svc] = <<Response(<<"v2", "n2">>, ManyPayloads)>>
    /\ endpoints[Svc] = Present(<<EpA, EpB, EpZero>>)

\* The complete lists of the responses of SpecBuild.
CompleteLists == { ExpectedList(r) : r \in BuildResponses }

(***************************************************************************)
(* C30: under any interleaving of GetEndpoints calls with the update of    *)
(* the watch task, the value a reader obtains for a service is the         *)
(* complete decoded list of exactly one accepted response: the cache entry *)
(* is at all times the whole list of the last accepted response, and a     *)
(* reader returns the entry it loaded, never a list that is partly built   *)
(* or mixed from two responses.                                            *)
(***************************************************************************)
C30_NoTornReads ==
    /\ \A s \in Services :
           endpoints[s].found
               => /\ accepted[s] # <<>>
                  /\ endpoints[s].eps = ExpectedList(accepted[s][1])
    /\ \A c \in Callers :
           (cpc[c] = "done" /\ cres[c].err = "")
               => /\ cres[c].eps = cseen[c].eps
                  /\ cres[c].eps \in CompleteLists

\* The watch task has appended two of the three endpoints of the response
\* v2; one reader has returned the list of v1 and another is in its call.
C30_Witness ==
    /\ wpc[Svc] = "build" /\ building[Svc] = <<EpA, EpB>>
    /\ endpoints[Svc] = Present(<<EpA>>)
    /\ cpc[1] = "done" /\ cres[1] = Result(<<EpA>>, "")
    /\ cpc[2] = "done" /\ cres[2].err = NotYetDiscovered(Svc)

\* The session of s: its task, its request, its backoff and its stream.
SessionState(s) ==
    <<wpc[s], req[s], resetBackoff[s], backoff[s], delay[s], ret[s],
      rx[s], srv[s], srvReq[s], outstanding[s]>>

\* All the client holds for s.
ServiceState(s) == <<endpoints[s], watching[s], nStarted[s], SessionState(s)>>

(***************************************************************************)
(* C31: the cache slot of a service s is written only by the watch task    *)
(* started for s (when its session takes a response), and a response, a    *)
(* failure or a reconnect in the session of s leaves the cache entry, the  *)
(* watch-started flag and the session state of every other service         *)
(* unchanged.                                                              *)
(***************************************************************************)
C31_SingleWriterPerService ==
    [][\A s \in DOMAIN endpoints :
           /\ endpoints'[s] # endpoints[s] => TakesResponse(s)
           /\ SessionState(s)' # SessionState(s)
                  => \A t \in DOMAIN endpoints \ {s} :
                         ServiceState(t)' = ServiceState(t)]_vars

\* svc is in its second session after a failed connect and an ended stream
\* and has no entry; web holds the list of its first session.
C31_Witness ==
    /\ streak["svc"].before = 1 /\ ret["svc"].err = "EOF" /\ wpc["svc"] = "sleep"
    /\ endpoints["svc"] = Absent
    /\ ret["web"] = NotReturned /\ endpoints["web"] = Present(<<EpA>>)
    /\ watching["svc"] # 0 /\ watching["web"] # 0

\* The step in which the task of s is started, or in which its supervisor
\* takes over after an attempt.
OwnBackoffStep(s) == (wpc[s] = "idle" /\ wpc'[s] = "connect") \/ AttemptEnds(s)

(***************************************************************************)
(* C32: each watch task owns its Backoff: the counter and the delay of the *)
(* task of a service change only in steps of that task, so a failure       *)
(* streak or a reset in the watch of service A never changes the delay     *)
(* computed for the watch of service B, which is InitialDelay after every  *)
(* attempt of B that ended with a reset and InitialDelay * 2^(n-1) for the *)
(* n-th Duration call of B's own loop since.                               *)
(***************************************************************************)
C32_PrivateBackoff ==
    /\ [][\A s \in DOMAIN backoff :
              <<backoff[s], delay[s]>>' # <<backoff[s], delay[s]>> => OwnBackoffStep(s)]_vars
    /\ [](\A s \in DOMAIN backoff :
              wpc[s] = "sleep"
                  => /\ delay[s] = MinDelay(DefaultInitialDelay, DefaultMaxDelay,
                                            backoff[s].n - 1)
                     /\ ret[s].reset => backoff[s].n = 1)

\* svc sleeps 800ms after three failures in a row while web, whose stream
\* ended cleanly, sleeps 200ms.
C32_Witness ==
    /\ wpc["svc"] = "sleep" /\ streak["svc"].fails = 3
    /\ delay["svc"] = Times(800, Millisecond)
    /\ wpc["web"] = "sleep" /\ ret["web"] = Returned(TRUE, "EOF")
    /\ delay["web"] = Times(200, Millisecond) /\ backoff["web"].n = 1

(***************************************************************************)
(* C33: the cache entry of a service is absent exactly until the first     *)
(* response of its watch is accepted: absent in every state before any     *)
(* response has been decoded successfully or received with zero resources, *)
(* and present (even if empty) from the first such response on.            *)
(***************************************************************************)
C33_AbsentUntilFirstAccepted ==
    /\ [](\A s \in Services : endpoints[s].found <=> accepted[s] # <<>>)
    /\ [][\A s \in Services :
              /\ endpoints[s].found => endpoints'[s].found
              /\ (TakesResponse(s) /\ Decodable(rx[s].resp)) => endpoints'[s].found
              /\ (~ endpoints[s].found /\ endpoints'[s].found)
                     => (TakesResponse(s) /\ Decodable(rx[s].resp))]_vars

\* The first session ended in an error after a response whose payload did
\* not decode; the second took a response with zero resources: the entry is
\* present and empty, and the caller gets the empty list with no error.
C33_Witness ==
    /\ ret[Svc] = Returned(TRUE, "failed to receive xDS discovery response")
    /\ wpc[Svc] = "send"
    /\ accepted[Svc] = <<Response(<<"v2", "n2">>, <<>>)>>
    /\ endpoints[Svc] = Present(<<>>)
    /\ cpc[1] = "done" /\ cres[1] = Result(<<>>, "")

\* Caller c makes a GetEndpoints call for s in this step.
MakesCall(c, s) ==
    /\ cpc[c] \in {"idle", "done"}
    /\ <<cpc[c], csvc[c], cres[c], cseen[c]>>' # <<cpc[c], csvc[c], cres[c], cseen[c]>>
    /\ csvc'[c] = s

(***************************************************************************)
(* C34: once GetEndpoints(s) has returned a list without error, every      *)
(* later GetEndpoints(s) on the same client also returns a list without    *)
(* error, because a cache entry is never deleted, and no later call for s  *)
(* starts another watch task.                                              *)
(***************************************************************************)
C34_DiscoveryIsMonotonic ==
    /\ [](\A c \in OneCaller :
              (cpc[c] = "done" /\ cres[c].err = "") => endpoints[csvc[c]].found)
    /\ [][\A s \in Services :
              endpoints[s].found
                  => /\ endpoints'[s].found
                     /\ nStarted'[s] = nStarted[s] /\ watching'[s] = watching[s]
                     /\ \A c \in OneCaller :
                            MakesCall(c, s)
                                => /\ cpc'[c] = "done"
                                   /\ cres'[c] = Result(endpoints[s].eps, "")]_vars

\* A session has failed, the next one has stored the list of v2, and a call
\* made on that entry has returned it with no error; one task was started.
C34_Witness ==
    /\ nStarted[Svc] = 1 /\ wpc[Svc] = "send"
    /\ ret[Svc].err = "failed to receive xDS discovery response"
    /\ accepted[Svc] = <<Response(<<"v2", "n2">>, <<ClaOne>>)>>
    /\ Ack(req[Svc]) = <<"v2", "n2">>
    /\ cpc[1] = "done" /\ cseen[1] = Present(<<EpA>>) /\ cres[1] = Result(<<EpA>>, "")

(***************************************************************************)
(* Two XDSClient values in one process.  The second one is the struct of   *)
(* NewXDSClient again: its own endpoints map and its own watching map.     *)
(* Its GetEndpoints and the store of its watch task are taken as one step  *)
(* each.                                                                   *)
(***************************************************************************)
\* GetEndpoints(s) on the second client: Load on its endpoints; without an
\* entry LoadOrStore on its watching and Do, which starts its watch task the
\* first time, and the not-yet-discovered error.
PeerGetEndpoints(s) ==
    /\ LET l == Lookup(peerEndpoints, s)
       IN  IF l.found
           THEN /\ peerRes' = Result(l.eps, "")
                /\ UNCHANGED peerWatching
           ELSE /\ peerRes' = Result(<<>>, NotYetDiscovered(s))
                /\ peerWatching' = [peerWatching EXCEPT ![s] = TRUE]
    /\ UNCHANGED <<peerEndpoints, clientVars, callerVars, watchVars, streamVars, boVars, idVars,
                   dialVars, spireVars>>

\* A watch task that stores into a map shared by all the clients of the
\* process.
PeerRecvResponseShared(s, r) ==
    /\ peerWatching[s]
    /\ peerEndpoints' = CacheAfter(peerEndpoints, s, r)
    /\ endpoints' = CacheAfter(endpoints, s, r)
    /\ UNCHANGED <<peerWatching, peerRes, watching, onceDone, nodeID, callerVars, watchVars,
                   streamVars, boVars, idVars, dialVars, spireVars>>

\* The watch task of the second client takes a response from its own stream:
\* c.endpoints.Store on the map of that client.
PeerRecvResponse(s, r) ==
    /\ peerWatching[s]
    /\ peerEndpoints' = CacheAfter(peerEndpoints, s, r)
    /\ UNCHANGED <<peerWatching, peerRes, clientVars, callerVars, watchVars,
                   streamVars, boVars, idVars, dialVars, spireVars>>

NextClients ==
    \/ \E c \in OneCaller, s \in Services : Call(c, s)
    \/ \E c \in OneCaller : CallerStep(c)
    \/ \E s \in Services : Connect(s) \/ ConnectFail(s) \/ Send(s) \/ RecvResponse(s)
    \/ \E s \in Services : RecvEOF(s) \/ Wake(s)
    \/ \E s \in Services, r \in FewResponses : ServerRespond(s, r)
    \/ \E s \in Services : ServerClose(s)
    \/ \E s \in Services : PeerGetEndpoints(s)
    \/ \E s \in Services, r \in FewResponses : PeerRecvResponse(s, r)

SpecClients == Init /\ [][NextClients]_vars

\* What belongs to the first client, and what to the second.
FirstClientState == <<endpoints, watching, onceDone, nStarted>>

SecondClientState == <<peerEndpoints, peerWatching>>

(***************************************************************************)
(* C35: the cache and the watch-started flags belong to one XDSClient: a   *)
(* GetEndpoints call or a response handled by one client never changes the *)
(* cache entries or the watch-started flags of another client, and what a  *)
(* call returns and whether it starts a watch depends on the maps of its   *)
(* own client only, even for the same service name.                        *)
(***************************************************************************)
C35_ClientsIndependent ==
    /\ [][SecondClientState' # SecondClientState => FirstClientState' = FirstClientState]_vars
    /\ [][FirstClientState' # FirstClientState => SecondClientState' = SecondClientState]_vars
    /\ [][\A s \in Services :
              peerRes' # peerRes /\ peerRes'.err \in {"", NotYetDiscovered(s)} =>
                  IF peerEndpoints[s].found
                  THEN peerRes' = Result(peerEndpoints[s].eps, "")
                  ELSE peerRes'.err = NotYetDiscovered(s) /\ peerWatching'[s]]_vars
    /\ [][\A c \in OneCaller, s \in Services :
              MakesCall(c, s) /\ cpc'[c] = "done" =>
                  endpoints[s].found /\ cres'[c] = Result(endpoints[s].eps, "")]_vars
    /\ [](\A s \in Services :
              /\ nStarted[s] > 0 => watching[s] # 0
              /\ watching[s] # 0 /\ (\A c \in OneCaller : cpc[c] \notin {"do"})
                     => nStarted[s] > 0)

\* The first client holds a list for svc and has handed it out, while the
\* second client, whose last answer for svc was not yet discovered, has
\* started a watch of its own, which took the empty list.
C35_Witness ==
    /\ endpoints[Svc] = Present(<<EpA>>) /\ nStarted[Svc] = 1
    /\ cpc[1] = "done" /\ cres[1] = Result(<<EpA>>, "")
    /\ peerWatching[Svc]
    /\ peerRes = Result(<<>>, NotYetDiscovered(Svc))
    /\ peerEndpoints[Svc] = Present(<<>>)

(***************************************************************************)
(* NewCofideTransport: the DialContext of the transport                    *)
(***************************************************************************)
\* Addresses are sequences of tokens, ":" being the separator.
AddrHostPort == <<"svc", ":", "443">>

AddrNoPort == <<"svc">>

AddrManyColons == <<"svc", ":", "443", ":", "1">>

Addrs == {AddrHostPort, AddrNoPort, AddrManyColons}

\* The position of the last ":" of addr, 0 when there is none.
LastColon(addr) ==
    LET at == { i \in 1 .. Len(addr) : addr[i] = ":" }
    IN  IF at = {} THEN 0 ELSE CHOOSE i \in at : \A j \in at : j <= i

\* The tokens of a sequence, joined into one string.
RECURSIVE JoinTokens(_)
JoinTokens(toks) ==
    IF toks = <<>> THEN "" ELSE Head(toks) \o JoinTokens(Tail(toks))

\* net.SplitHostPort(addr), for addresses without brackets.
SplitHostPort(addr) ==
    LET i == LastColon(addr)
    IN  IF i = 0
        THEN [host |-> "", port |-> "", err |-> "missing port in address"]
        ELSE IF \E j \in 1 .. i - 1 : addr[j] = ":"
        THEN [host |-> "", port |-> "", err |-> "too many colons in address"]
        ELSE [host |-> JoinTokens(SubSeq(addr, 1, i - 1)),
              port |-> JoinTokens(SubSeq(addr, i + 1, Len(addr))),
              err |-> ""]

\* fmt.Sprintf("%s:%d", endpoint.Host, endpoint.Port)
HostPort(endpoint) == <<endpoint.Host, ":", ToString(endpoint.Port)>>

\* selectEndpoint: return endpoints[0]
selectEndpoint(eps) == eps[1]

\* DialContext(ctx, network, addr), up to the return of SplitHostPort and the
\* call of client.GetEndpoints(host): an address that does not split is
\* dialed as it is.
DialContext(c, addr) ==
    /\ dPc \in {"idle", "dialed"}
    /\ dAddr' = addr
    /\ dSel' = NotSelected
    /\ LET hp == SplitHostPort(addr)
       IN  IF hp.err # ""
           THEN /\ dPc' = "dialed"
                /\ dTarget' = addr
                /\ UNCHANGED <<clientVars, callerVars, watchVars, streamVars, boVars, idVars,
                               peerVars, spireVars>>
           ELSE /\ dPc' = "GetEndpoints"
                /\ dTarget' = <<>>
                /\ GetEndpointsLoad(c, hp.host)

\* A dialer that falls back on an error only.
DialResolveOnErrorOnly(c) ==
    /\ dPc = "GetEndpoints"
    /\ cpc[c] = "done"
    /\ LET eps == cres[c].eps
           err == cres[c].err
       IN  IF err # ""
           THEN /\ dPc' = "dialed"
                /\ dTarget' = dAddr
                /\ UNCHANGED dSel
           ELSE /\ dSel' = [called |-> TRUE, from |-> eps]
                /\ IF eps = <<>>
                   THEN dPc' = "panic: index out of range" /\ dTarget' = <<>>
                   ELSE dPc' = "dialed" /\ dTarget' = HostPort(selectEndpoint(eps))
    /\ UNCHANGED <<dAddr, clientVars, callerVars, watchVars, streamVars, boVars, idVars,
                   peerVars, spireVars>>

\* GetEndpoints has returned: if err != nil || len(endpoints) == 0 the dialer
\* dials addr, otherwise the address of selectEndpoint(endpoints).  The index
\* expression of selectEndpoint panics on an empty slice.
DialResolve(c) ==
    /\ dPc = "GetEndpoints"
    /\ cpc[c] = "done"
    /\ LET eps == cres[c].eps
           err == cres[c].err
       IN  IF err # "" \/ Len(eps) = 0
           THEN /\ dPc' = "dialed"
                /\ dTarget' = dAddr
                /\ UNCHANGED dSel
           ELSE /\ dSel' = [called |-> TRUE, from |-> eps]
                /\ IF eps = <<>>
                   THEN dPc' = "panic: index out of range" /\ dTarget' = <<>>
                   ELSE dPc' = "dialed" /\ dTarget' = HostPort(selectEndpoint(eps))
    /\ UNCHANGED <<dAddr, clientVars, callerVars, watchVars, streamVars, boVars, idVars,
                   peerVars, spireVars>>

NextDial ==
    \/ \E c \in OneCaller, addr \in Addrs : DialContext(c, addr)
    \/ \E c \in OneCaller : CallerStep(c)
    \/ \E c \in OneCaller : DialResolve(c)
    \/ \E s \in Services : Connect(s) \/ ConnectFail(s) \/ Send(s) \/ RecvResponse(s)
    \/ \E s \in Services : RecvEOF(s) \/ Wake(s)
    \/ \E s \in Services, r \in FewResponses : ServerRespond(s, r)
    \/ \E s \in Services : ServerClose(s)

SpecDial == Init /\ [][NextDial]_vars

\* The dial that has returned could not use the cache: its address does not
\* split, or its GetEndpoints returned an error or no endpoint.
DialFellBack ==
    \/ SplitHostPort(dAddr).err # ""
    \/ \E c \in OneCaller : cres[c].err # "" \/ cres[c].eps = <<>>

(***************************************************************************)
(* C36: the dialer selects an endpoint only from a non-empty cached list:  *)
(* when the address has no host:port form, or GetEndpoints returns an      *)
(* error or an empty list, it dials the address it was asked for and       *)
(* selectEndpoint is not called; otherwise it dials host:port of the first *)
(* endpoint of the list GetEndpoints returned.  selectEndpoint is never    *)
(* applied to an empty list.                                               *)
(***************************************************************************)
C36_SelectFromNonEmptyOnly ==
    /\ dPc \in {"idle", "GetEndpoints", "dialed"}
    /\ dSel.called => dSel.from # <<>>
    /\ dPc = "dialed" =>
           IF DialFellBack
           THEN dTarget = dAddr /\ ~ dSel.called
           ELSE \A c \in OneCaller :
                    /\ dSel = [called |-> TRUE, from |-> cres[c].eps]
                    /\ dTarget = HostPort(cres[c].eps[1])

\* The watch has stored the empty list, GetEndpoints has returned it without
\* an error, and the dialer has dialed the address it was asked for.
C36_Witness ==
    /\ dPc = "dialed" /\ dAddr = AddrHostPort /\ dTarget = AddrHostPort
    /\ endpoints[Svc] = Present(<<>>)
    /\ cpc[1] = "done" /\ cres[1] = Result(<<>>, "")
    /\ ~ dSel.called

(***************************************************************************)
(* SPIREHelper: EnsureSPIRE, its bootstrap goroutine, and WaitReady.       *)
(* Each caller calls EnsureSPIRE and then WaitReady, as the methods of     *)
(* Server and Client do; the goroutine a call starts is named by the       *)
(* caller.  The fields of the helper are read and written without a lock,  *)
(* so the statements of the callers and of the goroutines interleave.      *)
(***************************************************************************)
\* if s.X509Source != nil { return }
EnsureSPIRE(c) ==
    /\ sPanic = ""
    /\ spc[c] = "idle"
    /\ spc' = [spc EXCEPT ![c] = IF sX509 # "nil" THEN "WaitReady" ELSE "backoff"]
    /\ UNCHANGED <<sX509, sBundle, sReady, sBackoff, lpc, sDelay, sWriters, sCloses, sPanic,
                   clientVars, callerVars, watchVars, streamVars, boVars, idVars,
                   peerVars, dialVars>>

\* if s.backoff == nil { s.backoff = backoff.NewBackoff() }
EnsureBackoff(c) ==
    /\ sPanic = ""
    /\ spc[c] = "backoff"
    /\ sBackoff' = IF sBackoff = <<>>
                   THEN NewBackoff(DefaultInitialDelay, DefaultMaxDelay) ELSE sBackoff
    /\ spc' = [spc EXCEPT ![c] = "readyCh"]
    /\ UNCHANGED <<sX509, sBundle, sReady, lpc, sDelay, sWriters, sCloses, sPanic,
                   clientVars, callerVars, watchVars, streamVars, boVars, idVars,
                   peerVars, dialVars>>

\* if s.readyCh == nil { s.readyCh = make(chan struct{}) }
EnsureReadyCh(c) ==
    /\ sPanic = ""
    /\ spc[c] = "readyCh"
    /\ sReady' = IF sReady = "nil" THEN "open" ELSE sReady
    /\ spc' = [spc EXCEPT ![c] = "go"]
    /\ UNCHANGED <<sX509, sBundle, sBackoff, lpc, sDelay, sWriters, sCloses, sPanic,
                   clientVars, callerVars, watchVars, streamVars, boVars, idVars,
                   peerVars, dialVars>>

\* go func() { ... }(): the call returns, its goroutine is at the top of
\* the for loop.
EnsureGo(c) ==
    /\ sPanic = ""
    /\ spc[c] = "go"
    /\ lpc' = [lpc EXCEPT ![c] = "NewX509Source"]
    /\ spc' = [spc EXCEPT ![c] = "WaitReady"]
    /\ UNCHANGED <<sX509, sBundle, sReady, sBackoff, sDelay, sWriters, sCloses, sPanic,
                   clientVars, callerVars, watchVars, streamVars, boVars, idVars,
                   peerVars, dialVars>>

\* WaitReady: <-s.readyCh returns when the channel is closed.
WaitReady(c) ==
    /\ sPanic = ""
    /\ spc[c] = "WaitReady"
    /\ sReady = "closed"
    /\ spc' = [spc EXCEPT ![c] = "ready"]
    /\ UNCHANGED <<sX509, sBundle, sReady, sBackoff, lpc, sDelay, sWriters, sCloses, sPanic,
                   clientVars, callerVars, watchVars, streamVars, boVars, idVars,
                   peerVars, dialVars>>

\* time.Sleep(s.backoff.Duration()); continue, in goroutine g.
SleepAndRetry(g) ==
    /\ sBackoff # <<>>
    /\ sBackoff.n < MaxFailures
    /\ sDelay' = [sDelay EXCEPT ![g] = Delay(sBackoff)]
    /\ sBackoff' = Advance(sBackoff)
    /\ lpc' = [lpc EXCEPT ![g] = "sleep"]

\* One of the three steps of the loop body in goroutine g, which succeeds
\* (ok) or returns an error: NewX509Source assigns s.X509Source (nil with an
\* error), GetX509SVID is called on whatever s.X509Source holds, and
\* NewBundleSource assigns s.BundleSource.  An error is followed by the
\* sleep and continue.
BootstrapStep(g, ok) ==
    /\ sPanic = ""
    /\ \/ /\ lpc[g] = "NewX509Source"
          /\ sX509' = IF ok THEN "set" ELSE "nil"
          /\ sWriters' = sWriters \cup {g}
          /\ IF ok
             THEN lpc' = [lpc EXCEPT ![g] = "GetX509SVID"] /\ UNCHANGED <<sBackoff, sDelay>>
             ELSE SleepAndRetry(g)
          /\ UNCHANGED <<sBundle, sPanic>>
       \/ /\ lpc[g] = "GetX509SVID"
          /\ IF sX509 = "nil"
             THEN sPanic' = "nil pointer dereference" /\ UNCHANGED <<lpc, sBackoff, sDelay>>
             ELSE /\ IF ok
                     THEN lpc' = [lpc EXCEPT ![g] = "NewBundleSource"]
                          /\ UNCHANGED <<sBackoff, sDelay>>
                     ELSE SleepAndRetry(g)
                  /\ UNCHANGED sPanic
          /\ UNCHANGED <<sX509, sBundle, sWriters>>
       \/ /\ lpc[g] = "NewBundleSource"
          /\ sBundle' = IF ok THEN "set" ELSE "nil"
          /\ IF ok
             THEN lpc' = [lpc EXCEPT ![g] = "Reset"] /\ UNCHANGED <<sBackoff, sDelay>>
             ELSE SleepAndRetry(g)
          /\ UNCHANGED <<sX509, sWriters, sPanic>>
    /\ UNCHANGED <<sReady, spc, sCloses,
                   clientVars, callerVars, watchVars, streamVars, boVars, idVars,
                   peerVars, dialVars>>

\* The sleep of goroutine g is over: the loop body starts again.
BootstrapWake(g) ==
    /\ sPanic = ""
    /\ lpc[g] = "sleep"
    /\ lpc' = [lpc EXCEPT ![g] = "NewX509Source"]
    /\ UNCHANGED <<sX509, sBundle, sReady, sBackoff, spc, sDelay, sWriters, sCloses, sPanic,
                   clientVars, callerVars, watchVars, streamVars, boVars, idVars,
                   peerVars, dialVars>>

\* s.backoff.Reset(); break
BootstrapReset(g) ==
    /\ sPanic = ""
    /\ lpc[g] = "Reset"
    /\ sBackoff' = Reset(sBackoff)
    /\ lpc' = [lpc EXCEPT ![g] = "close"]
    /\ UNCHANGED <<sX509, sBundle, sReady, spc, sDelay, sWriters, sCloses, sPanic,
                   clientVars, callerVars, watchVars, streamVars, boVars, idVars,
                   peerVars, dialVars>>

\* close(s.readyCh): the close of a closed channel panics.
BootstrapClose(g) ==
    /\ sPanic = ""
    /\ lpc[g] = "close"
    /\ sCloses' = sCloses + 1
    /\ IF sReady = "closed"
       THEN sPanic' = "close of closed channel" /\ UNCHANGED <<sReady, lpc>>
       ELSE /\ sReady' = "closed"
            /\ lpc' = [lpc EXCEPT ![g] = "exited"]
            /\ UNCHANGED sPanic
    /\ UNCHANGED <<sX509, sBundle, sBackoff, spc, sDelay, sWriters,
                   clientVars, callerVars, watchVars, streamVars, boVars, idVars,
                   peerVars, dialVars>>

NextSpire ==
    \/ \E c \in Callers : EnsureSPIRE(c) \/ EnsureBackoff(c) \/ EnsureReadyCh(c)
    \/ \E c \in Callers : EnsureGo(c) \/ WaitReady(c)
    \/ \E g \in Callers, ok \in BOOLEAN : BootstrapStep(g, ok)
    \/ \E g \in Callers : BootstrapWake(g) \/ BootstrapReset(g) \/ BootstrapClose(g)

SpecSpire == Init /\ [][NextSpire]_vars

(***************************************************************************)
(* C37: for any interleaving of EnsureSPIRE calls on one helper, including *)
(* several calls made before the identity source is ready, the ready       *)
(* channel is closed at most once (no close of the closed channel) and at  *)
(* most one bootstrap goroutine writes X509Source and BundleSource.        *)
(***************************************************************************)
C37_ReadyClosedOnce ==
    /\ sCloses <= 1
    /\ sPanic # "close of closed channel"
    /\ Cardinality(sWriters) <= 1
    /\ Cardinality({g \in Callers : lpc[g] # "none"}) <= 1

\* Two callers have called EnsureSPIRE before the source was there: both
\* goroutines ran the sequence to its end and the second close panicked.
C37_Witness ==
    /\ sPanic = "close of closed channel"
    /\ sCloses = 2
    /\ sWriters = {1, 2}
    /\ \A c \in {1, 2} : spc[c] \in {"WaitReady", "ready"}

\* The step of the loop body that follows a successful step.
StepAfter(at) ==
    CASE at = "NewX509Source" -> "GetX509SVID"
      [] at = "GetX509SVID" -> "NewBundleSource"
      [] at = "NewBundleSource" -> "Reset"
      [] at = "Reset" -> "close"
      [] OTHER -> at

BootstrapSteps == {"NewX509Source", "GetX509SVID", "NewBundleSource"}

(***************************************************************************)
(* C38: WaitReady returns only after bootstrap succeeded: in every state   *)
(* where a WaitReady call has returned, X509Source and BundleSource are    *)
(* non-nil (the X509 source was created, an SVID fetched from it and the   *)
(* bundle source created); a goroutine leaves a step of the sequence only  *)
(* for the next step or, on a failure, for a sleep of Backoff.Duration()   *)
(* after which it starts the whole sequence again, and it reaches the      *)
(* close of the channel only from the end of the sequence.                 *)
(***************************************************************************)
C38_ReadyMeansBootstrapped ==
    /\ [](\A c \in Callers : spc[c] = "ready" => sX509 = "set" /\ sBundle = "set")
    /\ [][\A g \in Callers :
              lpc[g] \in BootstrapSteps /\ lpc'[g] # lpc[g] =>
                  \/ lpc'[g] = StepAfter(lpc[g])
                  \/ /\ lpc'[g] = "sleep"
                     /\ sDelay'[g] = Delay(sBackoff)
                     /\ sBackoff' = Advance(sBackoff)]_vars
    /\ [][\A g \in Callers :
              /\ lpc[g] = "sleep" /\ lpc'[g] # "sleep" => lpc'[g] = "NewX509Source"
              /\ lpc'[g] = "close" /\ lpc[g] # "close" => lpc[g] = "Reset"
              /\ sReady' = "closed" /\ sReady # "closed" =>
                     \E h \in Callers : lpc[h] = "close"]_vars

\* WaitReady of caller 1 has returned, on the close made by one goroutine,
\* and the NewX509Source of the other goroutine has failed since:
\* X509Source is nil again.
C38_Witness ==
    /\ spc[1] = "ready" /\ sReady = "closed" /\ sCloses = 1
    /\ sX509 = "nil" /\ sBundle = "set"
    /\ \E g \in Callers : lpc[g] = "exited"
    /\ \E g \in Callers : lpc[g] = "sleep"

(***************************************************************************)
(* NewID, and ParsePath on the ID it returns.                              *)
(***************************************************************************)
\* Bounds of the maps given to NewID.
MaxKeyLen == 2

MaxKeys == 2

\* The keys and the values of those maps: every short string, the empty
\* string and strings with slashes included.
KeyStrings == SeqsUpTo(Chars, MaxKeyLen)

\* The maps with at most n keys, keys and values taken from strs.
NewIDMaps(strs, n) ==
    UNION { [ks -> strs] : ks \in { d \in SUBSET strs : Cardinality(d) <= n } }

\* The orders in which range kv may yield the keys of kv.
RangeOrders(kv) ==
    { o \in [1 .. Cardinality(DOMAIN kv) -> DOMAIN kv] :
          \A i, j \in DOMAIN o : i # j => o[i] # o[j] }

\* The byte order of the characters.
CharRank(ch) == CASE ch = "/" -> 47 [] ch = "a" -> 97 [] ch = "b" -> 98

\* a < b for Go strings.
RECURSIVE LessStr(_, _)
LessStr(a, b) ==
    IF b = <<>> THEN FALSE
    ELSE IF a = <<>> THEN TRUE
    ELSE IF Head(a) # Head(b) THEN CharRank(Head(a)) < CharRank(Head(b))
    ELSE LessStr(Tail(a), Tail(b))

\* One string put into its place in a sorted list.
RECURSIVE InsertSorted(_, _)
InsertSorted(k, sorted) ==
    IF sorted = <<>> THEN <<k>>
    ELSE IF LessStr(k, Head(sorted)) THEN <<k>> \o sorted
    ELSE <<Head(sorted)>> \o InsertSorted(k, Tail(sorted))

\* sort.Strings(keys)
RECURSIVE SortStrings(_)
SortStrings(keys) ==
    IF keys = <<>> THEN <<>> ELSE InsertSorted(Head(keys), SortStrings(Tail(keys)))

\* for _, k := range keys { pathKV = append(pathKV, k, kv[k]) }
RECURSIVE PathKV(_, _)
PathKV(keys, kv) ==
    IF keys = <<>> THEN <<>>
    ELSE <<Head(keys), kv[Head(keys)]>> \o PathKV(Tail(keys), kv)

\* strings.Join(parts, "/")
RECURSIVE Join(_)
Join(parts) ==
    IF parts = <<>> THEN <<>>
    ELSE IF Len(parts) = 1 THEN Head(parts)
    ELSE Head(parts) \o <<"/">> \o Join(Tail(parts))

\* strings.TrimSuffix(path, "/"): one trailing slash is removed.
TrimSuffix(path) ==
    IF path # <<>> /\ path[Len(path)] = "/" THEN SubSeq(path, 1, Len(path) - 1) ELSE path

\* spiffeid.TrustDomainFromString, for a name without scheme and path.
TrustDomainFromString(td) ==
    [td |-> td, err |-> Errorf(IF td = "" THEN "trust domain is missing" ELSE "", <<>>)]

\* spiffeid.FromPath of the upstream library: the path is empty, or a slash
\* followed by non-empty segments, with no trailing slash.
FromPath(td, path) ==
    LET segs == Split(Tail(path))
        err == IF path = <<>> THEN ""
               ELSE IF Head(path) # "/" THEN "path must have a leading slash"
               ELSE IF \E i \in 1 .. Len(segs) - 1 : segs[i] = <<>>
                    THEN "path cannot contain empty segments"
               ELSE IF segs[Len(segs)] = <<>> THEN "path cannot have a trailing slash"
               ELSE ""
    IN  [id |-> [td |-> td, path |-> path], err |-> Errorf(err, <<>>)]

\* The range loop of NewID over the keys in the order it meets them: whether
\* it returns the empty-key-or-value error.
RECURSIVE RangeFindsEmpty(_, _)
RangeFindsEmpty(order, kv) ==
    IF order = <<>> THEN FALSE
    ELSE IF Head(order) = <<>> \/ kv[Head(order)] = <<>> THEN TRUE
    ELSE RangeFindsEmpty(Tail(order), kv)

\* NewID(trustDomain, kv), the keys of kv met in the given order: the
\* *SPIFFEID (<<>> is nil) and the error.
NewID(trustDomain, kv, order) ==
    IF RangeFindsEmpty(order, kv)
    THEN [id |-> <<>>, err |-> Errorf("empty key or value not allowed", <<>>)]
    ELSE LET keys == SortStrings(order)
             pathKV == PathKV(keys, kv)
             td == TrustDomainFromString(trustDomain)
             path == TrimSuffix(<<"/">> \o Join(pathKV))
         IN  IF td.err # NilError
             THEN [id |-> <<>>, err |-> Wrap("failed to create trust domain", td.err)]
             ELSE IF FromPath(td.td, path).err # NilError
             THEN [id |-> <<>>,
                   err |-> Wrap("failed to create spiffe id", FromPath(td.td, path).err)]
             ELSE [id |-> <<FromPath(td.td, path).id>>, err |-> NilError]

InitNewID ==
    /\ InitClient /\ InitBackoffUnused
    /\ idStr = IDString("", "", <<>>)
    /\ idRet = NotParsed
    /\ mID = <<>> /\ mKV = <<>> /\ mFuncs = <<>> /\ mErr = NotCalled /\ mRes = <<>>
    /\ nTD \in {"example.com", ""}
    /\ nKV \in NewIDMaps(KeyStrings, MaxKeys)
    /\ nOrder \in RangeOrders(nKV)
    /\ nRet = NotParsed
    /\ nParsed = NoPath

\* id, err := NewID(nTD, nKV)
NewIDCall ==
    /\ nRet = NotParsed
    /\ nRet' = NewID(nTD, nKV, nOrder)
    /\ UNCHANGED <<nTD, nKV, nOrder, nParsed, idStr, idRet, mID, mKV, mFuncs, mErr, mRes,
                   clientVars, callerVars, watchVars, streamVars, boVars,
                   peerVars, dialVars, spireVars>>

\* id.ParsePath() on the ID NewID returned.
ParsePathCall ==
    /\ nRet.id # <<>>
    /\ nParsed = NoPath
    /\ nParsed' = ParsePath(nRet.id[1])
    /\ UNCHANGED <<nTD, nKV, nOrder, nRet, idStr, idRet, mID, mKV, mFuncs, mErr, mRes,
                   clientVars, callerVars, watchVars, streamVars, boVars,
                   peerVars, dialVars, spireVars>>

NextNewID == NewIDCall \/ ParsePathCall

SpecNewID == InitNewID /\ [][NextNewID]_vars

(***************************************************************************)
(* C39: for every trust domain and every key-value map that NewID accepts  *)
(* (no empty key or value, the empty map included), ParsePath on the       *)
(* resulting ID succeeds and returns exactly that map, and what NewID      *)
(* returns does not depend on the order in which the map is iterated.      *)
(***************************************************************************)
C39_NewIDParsePathRoundTrip ==
    /\ nRet # NotParsed => \A o \in RangeOrders(nKV) : NewID(nTD, nKV, o) = nRet
    /\ nRet.id # <<>> /\ nParsed # NoPath =>
           nParsed.err = NilError /\ nParsed.kv = nKV

\* NewID has accepted the empty map and returned the ID with the empty
\* path, and ParsePath on that ID has returned the odd-parts error.
C39_Witness ==
    /\ nTD = "example.com" /\ nKV = <<>>
    /\ nRet = [id |-> <<[td |-> "example.com", path |-> <<>>]>>, err |-> NilError]
    /\ nParsed = [kv |-> <<>>,
                  err |-> Errorf("invalid path, needs to be even in parts: %s", << <<>> >>)]

====
